---- MODULE Spec2Model ----
(***************************************************************************)
(* Edge-resident state and access-control layer of ohmyphoto:              *)
(*   - RateLimiterDO  (src/src/durable/rateLimiter.js)  fixed-window        *)
(*     counter actor: check / peek / adjust / reset                        *)
(*   - AlbumInfoDO    (src/src/durable/albumInfo.js)    TTL read-through    *)
(*     cache of an album's info.json                                       *)
(*   - session tokens (src/src/utils/session.js)        HMAC-signed tokens  *)
(*   - handleAlbumRequest / handleImageRequest          request handlers    *)
(*                                                                         *)
(* Time is the value of Date.now() in milliseconds; the clock advances in  *)
(* steps of TickMs.                                                        *)
(***************************************************************************)
EXTENDS Integers, Sequences, FiniteSets, TLC

VARIABLES
    now,        \* Date.now()
    mem,        \* RateLimiterDO.mem: {} (null) or {[count, resetAtMs]}
    stored,     \* RateLimiterDO durable storage key 'v': {} (absent) or {value}
    cresp,      \* the response of the last action on the counter actor
    cghost,     \* history: a reference fixed window fed by the check() calls
    bucket,     \* R2 object albums/<id>/info.json, per album
    amem,       \* AlbumInfoDO.mem per album: {} (null) or {entry}
    astored,    \* AlbumInfoDO durable storage key 'v' per album: {} or {entry}
    aenv,       \* the Worker's env, as far as the album handlers read it
    aresp,      \* the response of the album action just run (none after a tick)
    aghost,     \* history per album: the last read-through fetch
    tok,        \* a token: as issued, as presented, and how it verified
    genv,       \* the Worker's env, as far as the soft gate reads it
    soft,       \* RateLimiterDO turnstile_soft:<ip>, its value per client IP
    jar,        \* per client IP: {} or {the bypass cookie the browser holds}
    bg,         \* per client IP: background verifications not yet run
    gghost,     \* history per client IP: a reference count of charged requests
    wk,         \* the listing request the Worker is handling, and where it is
    inflight,   \* concurrent calls: check() on the counter actor with its input gate,
                \* or listing requests of one client at the soft gate
    idx,        \* AlbumIndexDO of one album, and the album's photo and preview objects
    ns          \* the actors of RATE_LIMITER and ALBUM_INFO by the name they are got with

counterVars == <<mem, stored, cresp, cghost>>
albumVars == <<bucket, amem, astored, aenv, aresp, aghost>>
gateVars == <<genv, soft, jar, bg, gghost>>
otherVars == <<albumVars, tok, idx, ns, wk, inflight, gateVars>>   \* what the counter actions leave alone
vars == <<now, counterVars, albumVars, tok, idx, ns, wk, inflight, gateVars>>

----------------------------------------------------------------------------
(* Bounds of the model *)

TickMs == 2500      \* granularity of the clock
MaxTicks == 3       \* the clock stops after MaxTicks steps
MaxCount == 4       \* check()/adjust() are not called once count reaches it

(* Number(undefined), Number("x"): the one non-finite number the handlers see *)
NaN == -1000000

IsFinite(x) == x # NaN

Max(a, b) == IF a >= b THEN a ELSE b

TheOne(S) == CHOOSE x \in S : TRUE

----------------------------------------------------------------------------
(* RateLimiterDO *)

ZeroCounter == [count |-> 0, resetAtMs |-> 0]

\* load(): the memo if set, else the durable value, else {count: 0, resetAtMs: 0}
LoadMemoOnly(m, s) == IF m # {} THEN TheOne(m) ELSE ZeroCounter
Load(m, s) ==
    IF m # {} THEN TheOne(m)
    ELSE IF s # {} THEN TheOne(s)
    ELSE ZeroCounter

NoResp ==
    [op |-> "none", status |-> 0, allowed |-> FALSE, limit |-> 0,
     remaining |-> 0, count |-> 0, resetAtMs |-> 0,
     at |-> 0,          \* history: Date.now() of the action
     before |-> {}]     \* history: the durable value before the action

\* validation of check()
CheckInvalidCoerced(limit, windowMs) ==
    ~IsFinite(limit) \/ ~IsFinite(windowMs)
CheckInvalid(limit, windowMs) ==
    \/ ~IsFinite(limit) \/ limit <= 0
    \/ ~IsFinite(windowMs) \/ windowMs <= 0

\* check(): expired or absent window -> start one; count += 1
CheckStartsWindowBug(v, t) == v.resetAtMs = 0 \/ t > v.resetAtMs
CheckStartsWindow(v, t) == v.resetAtMs = 0 \/ t >= v.resetAtMs

CheckValue(v, t, windowMs) ==
    LET v1 == IF CheckStartsWindow(v, t)
              THEN [count |-> 0, resetAtMs |-> t + windowMs]
              ELSE v
    IN [v1 EXCEPT !.count = @ + 1]

CheckAllowed(count, limit) == count <= limit

CheckResp(v2, limit) ==
    [NoResp EXCEPT !.op = "check", !.status = 200,
                   !.allowed = CheckAllowed(v2.count, limit),
                   !.limit = limit,
                   !.remaining = Max(0, limit - v2.count),
                   !.count = v2.count,
                   !.resetAtMs = v2.resetAtMs]

\* peek(): lazy expiry, nothing written
PeekExpired(v, t) == v.resetAtMs > 0 /\ t >= v.resetAtMs

PeekRespStale(v, t) ==
    [NoResp EXCEPT !.op = "peek", !.status = 200,
                   !.count = v.count, !.resetAtMs = v.resetAtMs]
PeekResp(v, t) ==
    [NoResp EXCEPT !.op = "peek", !.status = 200,
                   !.count = IF PeekExpired(v, t) THEN 0 ELSE v.count,
                   !.resetAtMs = IF PeekExpired(v, t) THEN 0 ELSE v.resetAtMs]

\* adjust(delta, windowMs?)
AdjustValueNoExpiry(v, t, delta, windowMs) ==
    LET v2 == IF v.resetAtMs = 0 /\ IsFinite(windowMs) /\ windowMs > 0
              THEN [v EXCEPT !.resetAtMs = t + windowMs]
              ELSE v
    IN [v2 EXCEPT !.count = Max(0, v2.count + delta)]
\* an adjust whose every strike restarts the window
AdjustValueSliding(v, t, delta, windowMs) ==
    LET v1 == IF v.resetAtMs # 0 /\ t >= v.resetAtMs THEN ZeroCounter ELSE v
        v2 == IF IsFinite(windowMs) /\ windowMs > 0
              THEN [v1 EXCEPT !.resetAtMs = t + windowMs]
              ELSE v1
    IN [v2 EXCEPT !.count = Max(0, v2.count + delta)]
AdjustValue(v, t, delta, windowMs) ==
    LET v1 == IF v.resetAtMs # 0 /\ t >= v.resetAtMs THEN ZeroCounter ELSE v
        v2 == IF (v1.resetAtMs = 0 \/ v1.resetAtMs <= 0)
                 /\ IsFinite(windowMs) /\ windowMs > 0
              THEN [v1 EXCEPT !.resetAtMs = t + windowMs]
              ELSE v1
    IN [v2 EXCEPT !.count = Max(0, v2.count + delta)]

\* reset(windowMs?)
ResetValue(t, windowMs) ==
    [count |-> 0,
     resetAtMs |-> IF IsFinite(windowMs) /\ windowMs > 0 THEN t + windowMs ELSE 0]

----------------------------------------------------------------------------
(* Strings the handlers trim and validate, for the strings of the model *)

\* String.prototype.trim
Trim(x) ==
    CASE x = " b.jpg" -> "b.jpg"
      [] x = " k2 "   -> "k2"
      [] x = " "      -> ""
      [] OTHER        -> x

\* isValidAlbumId: /^[a-zA-Z0-9_-]{1,64}$/
IsValidAlbumId(a) == a \notin {"", "a/1", "a:1"}

\* isValidPhotoFileName: non-empty after trim, no slash, no leading dot,
\* [a-zA-Z0-9][a-zA-Z0-9._ -]* and ending in .jpg
IsValidPhotoFileName(n) == Trim(n) \in {"a.jpg", "b.jpg"}

\* sha256Hex as an ideal hash: one digest per input string
Sha256Hex(x) == "sha256(" \o x \o ")"

\* imageSig: sha256hex(`${albumId}:${name}:${secret}`)
ImageSigNoSecret(albumId, name, secret) == Sha256Hex(albumId \o ":" \o name)
ImageSig(albumId, name, secret) ==
    Sha256Hex(albumId \o ":" \o name \o ":" \o secret)

----------------------------------------------------------------------------
(* Album settings (info.json) and their secrets *)

Albums == {"a1"}

NoObject == [st |-> "absent"]
BadObject == [st |-> "bad"]             \* present, not parsable as JSON
OkObject(info) == [st |-> "ok", info |-> info]

\* extractSecrets: the non-empty legacy secret and the non-empty keys of
\* secrets ("" stands for a missing or non-string info.secret)
ExtractSecrets(info) ==
    (IF info.secret # "" THEN {info.secret} ELSE {})
        \cup {k \in info.secrets : k # ""}

\* normalizeSecretsToObject: the trimmed, non-empty members of the list
NormalizeSecretsToObject(list) ==
    {Trim(list[i]) : i \in DOMAIN list} \ {""}

----------------------------------------------------------------------------
(* AlbumInfoDO *)

AlbumInfoTtlDefaultMs == 604800000      \* 7 * 24 * 60 * 60 * 1000
ParseErrorTtlDefaultMs == 60000         \* 60 * 1000

\* a || b on numbers: NaN and 0 are falsy
OrNum(a, b) == IF a = NaN \/ a = 0 THEN b ELSE a

\* ttlMs and parseErrorTtlMs of a get()
InfoTtlMs(bodyTtl, e) ==
    OrNum(OrNum(bodyTtl, e.ALBUM_INFO_TTL_MS), AlbumInfoTtlDefaultMs)
InfoParseErrorTtlMs(e) ==
    OrNum(e.ALBUM_INFO_PARSE_ERROR_TTL_MS, ParseErrorTtlDefaultMs)

\* refresh(): read the settings object and build the entry
InfoRefresh(albumId, obj, t) ==
    IF obj.st = "absent"
    THEN [ok |-> FALSE, status |-> 404, albumId |-> albumId, fetchedAtMs |-> t]
    ELSE IF obj.st = "bad"
    THEN [ok |-> FALSE, status |-> 500, albumId |-> albumId, fetchedAtMs |-> t]
    ELSE [ok |-> TRUE, status |-> 200, albumId |-> albumId, info |-> obj.info,
          secrets |-> ExtractSecrets(obj.info), fetchedAtMs |-> t]

\* the TTL that applies to entry v
InfoEffectiveTtlMs(v, ttlMs, parseErrorTtlMs) ==
    IF ~v.ok /\ v.status = 500 THEN parseErrorTtlMs ELSE ttlMs

\* is entry v served from the cache at time t
InfoFreshInclusive(v, albumId, t, ttlMs, parseErrorTtlMs) ==
    /\ v.albumId = albumId
    /\ t - v.fetchedAtMs >= 0
    /\ t - v.fetchedAtMs <= InfoEffectiveTtlMs(v, ttlMs, parseErrorTtlMs)
InfoFresh(v, albumId, t, ttlMs, parseErrorTtlMs) ==
    /\ v.albumId = albumId
    /\ t - v.fetchedAtMs >= 0
    /\ t - v.fetchedAtMs < InfoEffectiveTtlMs(v, ttlMs, parseErrorTtlMs)

\* load(): the memo if set, else the durable entry, else null
InfoLoadMemoOnly(m, s) == m
InfoLoad(m, s) == IF m # {} THEN m ELSE s

\* fetch() with action "get": the new memo and durable entry, the entry
\* returned, cached, and whether BUCKET.get was called
InfoGet(albumId, m, s, obj, t, bodyTtl, e) ==
    LET v == InfoLoad(m, s)
    IN IF v # {} /\ InfoFresh(TheOne(v), albumId, t, InfoTtlMs(bodyTtl, e),
                              InfoParseErrorTtlMs(e))
       THEN [mem |-> v, stored |-> s, out |-> TheOne(v), cached |-> TRUE,
             read |-> FALSE]
       ELSE LET nv == InfoRefresh(albumId, obj, t)
            IN [mem |-> {nv}, stored |-> {nv}, out |-> nv, cached |-> FALSE,
                read |-> TRUE]

----------------------------------------------------------------------------
(* Reading an album's settings: getAlbumInfoWithSecrets, checkAlbumSecret *)

\* (settings read for their legacy secret field only)
DirectInfoLegacyOnly(obj) ==
    IF obj.st = "absent" THEN [ok |-> FALSE, status |-> 404]
    ELSE IF obj.st = "bad" THEN [ok |-> FALSE, status |-> 500]
    ELSE [ok |-> TRUE, status |-> 200, info |-> obj.info,
          secrets |-> {obj.info.secret} \ {""}]
\* the direct read of info.json from the bucket
DirectInfo(obj) ==
    IF obj.st = "absent" THEN [ok |-> FALSE, status |-> 404]
    ELSE IF obj.st = "bad" THEN [ok |-> FALSE, status |-> 500]
    ELSE [ok |-> TRUE, status |-> 200, info |-> obj.info,
          secrets |-> ExtractSecrets(obj.info)]

\* getAlbumInfoWithSecrets: through AlbumInfoDO when it is bound and answers
\* (doUp), else straight from the bucket. viaDO: the actor handled a get.
GetAlbumInfoWithSecrets(albumId, doUp) ==
    IF aenv.hasInfoDO /\ doUp /\ IsValidAlbumId(albumId)
    THEN LET g == InfoGet(albumId, amem[albumId], astored[albumId],
                          bucket[albumId], now, NaN, aenv)
         IN [viaDO |-> TRUE, get |-> g,
             res |-> IF g.out.ok
                     THEN [ok |-> TRUE, status |-> 200, info |-> g.out.info,
                           secrets |-> g.out.secrets]
                     ELSE [ok |-> FALSE, status |-> g.out.status]]
    ELSE [viaDO |-> FALSE, res |-> DirectInfo(bucket[albumId])]

\* checkAlbumSecret on what was loaded
CheckAlbumSecretHidesAlbum(loaded, secret) ==
    IF ~loaded.ok \/ secret = "" \/ secret \notin loaded.secrets
    THEN [success |-> FALSE, status |-> 403]
    ELSE [success |-> TRUE, status |-> 200, info |-> loaded.info,
          matchedSecret |-> secret]
\* (a check that compares with String(info.secret || "") as well)
CheckAlbumSecretLegacy(loaded, secret) ==
    IF ~loaded.ok
    THEN [success |-> FALSE, status |-> loaded.status]
    ELSE IF secret # loaded.info.secret /\ secret \notin loaded.secrets
    THEN [success |-> FALSE, status |-> 403]
    ELSE [success |-> TRUE, status |-> 200, info |-> loaded.info,
          matchedSecret |-> secret]
CheckAlbumSecret(loaded, secret) ==
    IF ~loaded.ok
    THEN [success |-> FALSE, status |-> loaded.status]
    ELSE IF secret = "" \/ secret \notin loaded.secrets
    THEN [success |-> FALSE, status |-> 403]
    ELSE [success |-> TRUE, status |-> 200, info |-> loaded.info,
          matchedSecret |-> secret]

\* the names listed: trimmed, then the valid ones, in the order of info.files
ListedNames(info) ==
    SelectSeq([i \in DOMAIN info.files |-> Trim(info.files[i])],
              IsValidPhotoFileName)

\* one entry per listed name, both URLs signed with the matched secret
SignedFiles(albumId, names, matchedSecret) ==
    [i \in DOMAIN names |->
        [name |-> names[i],
         photoUrl |-> [album |-> albumId, kind |-> "photos", name |-> names[i],
                       s |-> ImageSig(albumId, names[i], matchedSecret)],
         previewUrl |-> [album |-> albumId, kind |-> "preview", name |-> names[i],
                         s |-> ImageSig(albumId, names[i], matchedSecret)]]]

----------------------------------------------------------------------------
(* History of the album cache *)

NoFetch == [t |-> 0, valid |-> FALSE, out |-> {}, dirty |-> FALSE]

\* after a get(): a read-through fetch is the new last fetch
GhostAfterGet(g, r, t) ==
    IF r.read
    THEN [t |-> t, valid |-> TRUE, out |-> {r.out}, dirty |-> FALSE]
    ELSE g

\* after the bucket was written (changed) and the cache invalidated or not
GhostAfterWrite(g, changed, invalidated) ==
    IF invalidated THEN NoFetch
    ELSE [g EXCEPT !.dirty = @ \/ changed]

\* the secrets configured in the bucket right now
Configured(albumId) ==
    IF bucket[albumId].st = "ok" THEN ExtractSecrets(bucket[albumId].info) ELSE {}

----------------------------------------------------------------------------
(* Inputs of the album actions *)

FileList == <<"a.jpg", " b.jpg", "x/y.jpg">>

InfoInputs ==
    { [secret |-> "",   secrets |-> {"k1"},       files |-> FileList, hasFiles |-> TRUE],
      [secret |-> "k2", secrets |-> {"k1", ""},   files |-> FileList, hasFiles |-> TRUE],
      [secret |-> "",   secrets |-> {},           files |-> <<>>,     hasFiles |-> FALSE] }

UploadInputs == {NoObject, BadObject} \cup {OkObject(i) : i \in InfoInputs}

\* body.secrets of an admin update: absent, or a list
SecretsBodyInputs ==
    { [given |-> FALSE, list |-> <<>>],
      [given |-> TRUE,  list |-> <<" k2 ", "">>] }

TtlBodyInputs == {NaN, TickMs, 3 * TickMs}

AlbumIdInputs == Albums \cup {"a/1"}
NameInputs == {"a.jpg", "x/y.jpg"}
KindInputs == {"photos", "other"}
SigInputs(albumId) ==
    { "",
      ImageSig(albumId, "a.jpg", "k1"),
      ImageSig(albumId, "a.jpg", "k2"),
      ImageSig(albumId, "b.jpg", "k1") }

\* a call to an actor answers or not; one value where no call is made
UpInputs(used) == IF used THEN BOOLEAN ELSE {TRUE}

\* env: AlbumInfoDO bound or not, its TTLs set or not
AlbumEnvs ==
    { [hasInfoDO |-> TRUE,  ALBUM_INFO_TTL_MS |-> NaN,
       ALBUM_INFO_PARSE_ERROR_TTL_MS |-> NaN],
      [hasInfoDO |-> TRUE,  ALBUM_INFO_TTL_MS |-> 2 * TickMs,
       ALBUM_INFO_PARSE_ERROR_TTL_MS |-> TickMs],
      [hasInfoDO |-> FALSE, ALBUM_INFO_TTL_MS |-> NaN,
       ALBUM_INFO_PARSE_ERROR_TTL_MS |-> NaN] }

----------------------------------------------------------------------------
(* Actions on albums *)

\* AlbumInfoDO of album a is evicted
CacheRestart ==
    \E a \in Albums :
        /\ amem[a] # {}
        /\ amem' = [amem EXCEPT ![a] = {}]
        /\ UNCHANGED <<now, counterVars, tok, idx, ns, wk, inflight, gateVars, bucket, astored, aenv, aresp, aghost>>

\* info.json is written or deleted straight in the bucket (wrangler r2 object put)
ExternalPut ==
    \E a \in Albums, obj \in UploadInputs :
        /\ obj # bucket[a]
        /\ bucket' = [bucket EXCEPT ![a] = obj]
        /\ aghost' = [aghost EXCEPT ![a] = GhostAfterWrite(@, TRUE, FALSE)]
        /\ aresp' = [op |-> "upload", album |-> a]
        /\ UNCHANGED <<now, counterVars, tok, idx, ns, wk, inflight, gateVars, amem, astored, aenv>>

\* info.json is written in the bucket with the legacy secret field alone, or
\* with the same string as legacy secret and as a key of secrets
ExternalPutLegacy ==
    \E a \in Albums, keys \in {{}, {"k1"}} :
    \E obj \in {OkObject([secret |-> "k1", secrets |-> keys, files |-> FileList,
                          hasFiles |-> TRUE])} :
        /\ obj # bucket[a]
        /\ bucket' = [bucket EXCEPT ![a] = obj]
        /\ aghost' = [aghost EXCEPT ![a] = GhostAfterWrite(@, TRUE, FALSE)]
        /\ aresp' = [op |-> "upload", album |-> a]
        /\ UNCHANGED <<now, counterVars, tok, idx, ns, wk, inflight, gateVars, amem, astored, aenv>>

\* invalidateAlbumCache: best effort, the call reaches the actor or not (up)
Invalidated(up) == aenv.hasInfoDO /\ up

\* putInfoJson(albumId, info) then the response r
PutInfoJson(a, info, up, r) ==
    /\ bucket' = [bucket EXCEPT ![a] = OkObject(info)]
    /\ amem' = IF Invalidated(up) THEN [amem EXCEPT ![a] = {}] ELSE amem
    /\ astored' = IF Invalidated(up) THEN [astored EXCEPT ![a] = {}] ELSE astored
    /\ aghost' = [aghost EXCEPT ![a] =
                    GhostAfterWrite(@, bucket[a] # OkObject(info), Invalidated(up))]
    /\ aresp' = r
    /\ UNCHANGED <<now, counterVars, tok, idx, ns, wk, inflight, gateVars, aenv>>

\* POST /api/admin/album
AdminCreate ==
    \E a \in Albums, secret \in {"k1"}, up \in BOOLEAN :
        IF bucket[a].st # "absent"
        THEN /\ aresp' = [op |-> "admin", album |-> a, status |-> 409]
             /\ UNCHANGED <<now, counterVars, tok, idx, ns, wk, inflight, gateVars, bucket, amem, astored, aenv, aghost>>
        ELSE PutInfoJson(a, [secret |-> "", secrets |-> {secret}, files |-> <<>>,
                             hasFiles |-> TRUE], up,
                         [op |-> "admin", album |-> a, status |-> 200])

\* PUT /api/admin/album/<albumId>, without rename
AdminUpdate ==
    \E a \in Albums, body \in SecretsBodyInputs, up \in BOOLEAN :
        IF bucket[a].st # "ok"
        THEN /\ aresp' = [op |-> "admin", album |-> a, status |-> 404]
             /\ UNCHANGED <<now, counterVars, tok, idx, ns, wk, inflight, gateVars, bucket, amem, astored, aenv, aghost>>
        ELSE LET existing == bucket[a].info
                 nextSecrets == IF body.given
                                THEN NormalizeSecretsToObject(body.list)
                                ELSE existing.secrets
             IN PutInfoJson(a, [existing EXCEPT !.secrets = nextSecrets,
                                                !.secret = ""], up,
                            [op |-> "admin", album |-> a, status |-> 200])

\* DELETE /api/admin/album/<albumId>
AdminDelete ==
    \E a \in Albums, up \in BOOLEAN :
        /\ bucket' = [bucket EXCEPT ![a] = NoObject]
        /\ amem' = IF Invalidated(up) THEN [amem EXCEPT ![a] = {}] ELSE amem
        /\ astored' = IF Invalidated(up) THEN [astored EXCEPT ![a] = {}] ELSE astored
        /\ aghost' = [aghost EXCEPT ![a] =
                        GhostAfterWrite(@, bucket[a] # NoObject, Invalidated(up))]
        /\ aresp' = [op |-> "admin", album |-> a,
                     status |-> IF bucket[a].st = "absent" THEN 404 ELSE 200]
        /\ UNCHANGED <<now, counterVars, tok, idx, ns, wk, inflight, gateVars, aenv>>

\* AlbumInfoDO.fetch { action: "get", albumId, ttlMs? }
InfoDOGet ==
    \E a \in Albums, bodyTtl \in TtlBodyInputs :
        /\ aenv.hasInfoDO
        /\ LET g == InfoGet(a, amem[a], astored[a], bucket[a], now, bodyTtl, aenv)
           IN /\ amem' = [amem EXCEPT ![a] = g.mem]
              /\ astored' = [astored EXCEPT ![a] = g.stored]
              /\ aghost' = [aghost EXCEPT ![a] = GhostAfterGet(@, g, now)]
              /\ aresp' = [op |-> "get", album |-> a, out |-> g.out,
                           cached |-> g.cached, read |-> g.read, at |-> now,
                           ttlMs |-> InfoTtlMs(bodyTtl, aenv),
                           parseErrorTtlMs |-> InfoParseErrorTtlMs(aenv),
                           prev |-> aghost[a],
                           cold |-> amem[a] = {}, durable |-> astored[a]]
        /\ UNCHANGED <<now, counterVars, tok, idx, ns, wk, inflight, gateVars, bucket, aenv>>

\* what a handler's getAlbumInfoWithSecrets leaves in the actor of album a
AfterLoad(a, l) ==
    IF l.viaDO
    THEN /\ amem' = [amem EXCEPT ![a] = l.get.mem]
         /\ astored' = [astored EXCEPT ![a] = l.get.stored]
         /\ aghost' = [aghost EXCEPT ![a] = GhostAfterGet(@, l.get, now)]
    ELSE UNCHANGED <<amem, astored, aghost>>

\* does a configured secret sign (albumId, name) as sig
SigMatchesAnySecret(albumId, name, sig, secrets) ==
    \E k \in {"k1", "k2"} : ImageSig(albumId, name, k) = sig
SigMatches(albumId, name, sig, secrets) ==
    \E k \in secrets : ImageSig(albumId, name, k) = sig

\* GET /img/<albumId>/(photos|preview)/<name>?s=<sig>; exists: the blob is there
ImageRequest ==
    \E a \in AlbumIdInputs :
    \E kind \in (IF IsValidAlbumId(a) THEN KindInputs ELSE {"photos"}) :
    \E name \in (IF IsValidAlbumId(a) /\ kind = "photos" THEN NameInputs
                 ELSE {"a.jpg"}) :
    \E sig \in (IF IsValidAlbumId(a) /\ kind = "photos" /\ IsValidPhotoFileName(name)
                THEN SigInputs(a) ELSE {""}) :
    \E r \in {[op |-> "image", album |-> a, kind |-> kind, name |-> name,
               sig |-> sig, status |-> 0, blobRead |-> FALSE, loaded |-> FALSE]} :
        /\ UNCHANGED <<now, counterVars, tok, idx, ns, wk, inflight, gateVars, bucket, aenv>>
        /\ IF ~IsValidAlbumId(a)
           THEN /\ aresp' = [r EXCEPT !.status = 403]
                /\ UNCHANGED <<amem, astored, aghost>>
           ELSE IF kind # "photos" /\ kind # "preview"
           THEN /\ aresp' = [r EXCEPT !.status = 404]
                /\ UNCHANGED <<amem, astored, aghost>>
           ELSE IF ~IsValidPhotoFileName(name) \/ sig = ""
           THEN /\ aresp' = [r EXCEPT !.status = 403]
                /\ UNCHANGED <<amem, astored, aghost>>
           ELSE \E doUp \in UpInputs(aenv.hasInfoDO) :
                \E l \in {GetAlbumInfoWithSecrets(a, doUp)} :
                \E h \in {[r EXCEPT !.loaded = TRUE] @@
                          [cur |-> Configured(a), dirty |-> aghost[a].dirty,
                           viaDO |-> l.viaDO, used |-> l.res]} :
                  /\ AfterLoad(a, l)
                  /\ IF ~l.res.ok \/ l.res.secrets = {}
                        \/ ~SigMatches(a, name, sig, l.res.secrets)
                     THEN aresp' = [h EXCEPT !.status = 403]
                     ELSE \E exists \in BOOLEAN :
                            aresp' = [h EXCEPT !.status = IF exists THEN 200 ELSE 404,
                                               !.blobRead = TRUE]

NoAlbumEnv ==
    [hasInfoDO |-> FALSE, ALBUM_INFO_TTL_MS |-> NaN,
     ALBUM_INFO_PARSE_ERROR_TTL_MS |-> NaN]

AlbumIdle ==
    /\ bucket = [a \in Albums |-> NoObject]
    /\ amem = [a \in Albums |-> {}]
    /\ astored = [a \in Albums |-> {}]
    /\ aresp = [op |-> "none"]
    /\ aghost = [a \in Albums |-> NoFetch]

----------------------------------------------------------------------------
(* Signed tokens (utils/session.js)                                        *)
(* A token is the sequence of its dot-separated parts. A payload part is   *)
(* base64url(JSON text); a JSON object is a record of Num and Str values.  *)

AdminSessionTtlMs == 604800000      \* 7 * 24 * 60 * 60 * 1000
MinBypassTtlMs == 5000              \* Math.max(5_000, ...)

Num(n) == [num |-> n]
Str(x) == [str |-> x]

\* base64UrlEncodeJson(obj)
B64Json(obj) == [obj |-> obj]
\* the empty string between or around dots
EmptyPart == [raw |-> ""]

\* base64UrlEncode(hmacSha256Bytes(key, message)): an ideal MAC
HmacB64(key, message) == [hmac |-> [key |-> key, msg |-> message]]

\* String(sha256Hex(clientIp)).slice(0, 16)
IpHash(clientIp) == "h16(" \o clientIp \o ")"

IsNumField(p, f) == f \in DOMAIN p /\ "num" \in DOMAIN p[f]
IsStrField(p, f) == f \in DOMAIN p /\ "str" \in DOMAIN p[f]

\* payload.exp <= nowMs rejects
NotExpiredInclusive(exp, t) == exp >= t
NotExpired(exp, t) == exp > t

IssueAdminSessionToken(adminToken, t) ==
    LET payloadB64 == B64Json([v |-> Num(1), iat |-> Num(t),
                               exp |-> Num(t + AdminSessionTtlMs)])
    IN <<payloadB64, HmacB64(adminToken, payloadB64)>>

\* split, both parts non-empty, signature, JSON object, v, iat/exp, expiry
VerifyCommonAnyPayload(t, key, tnow) ==
    /\ Len(t) = 2
    /\ t[1] # EmptyPart /\ t[2] # EmptyPart
    /\ HmacB64(key, t[1]) = t[2]
    /\ "obj" \in DOMAIN t[1]
    /\ IsNumField(t[1].obj, "exp") => NotExpired(t[1].obj.exp.num, tnow)
VerifyCommon(t, key, tnow) ==
    /\ Len(t) = 2
    /\ t[1] # EmptyPart /\ t[2] # EmptyPart
    /\ HmacB64(key, t[1]) = t[2]
    /\ "obj" \in DOMAIN t[1]
    /\ LET payload == t[1].obj
       IN /\ IsNumField(payload, "v") /\ payload.v.num = 1
          /\ IsNumField(payload, "iat") /\ IsNumField(payload, "exp")
          /\ NotExpired(payload.exp.num, tnow)

VerifyAdminSessionToken(sessionToken, adminToken, tnow) ==
    VerifyCommon(sessionToken, adminToken, tnow)

\* exp = nowMs + Math.max(5_000, Number(ttlMs) || 0)
BypassExpNoFloor(ttlMs, t) == t + OrNum(ttlMs, 0)
BypassExp(ttlMs, t) == t + Max(MinBypassTtlMs, OrNum(ttlMs, 0))

IssueHumanBypassToken(secretKey, clientIp, ttlMs, t) ==
    LET payloadB64 == B64Json([v |-> Num(1), iat |-> Num(t),
                               exp |-> Num(BypassExp(ttlMs, t)),
                               i |-> Str(IpHash(clientIp))])
    IN <<payloadB64, HmacB64(secretKey, payloadB64)>>

VerifyHumanBypassTokenAnyIp(token, secretKey, clientIp, tnow) ==
    /\ VerifyCommon(token, secretKey, tnow)
    /\ IsStrField(token[1].obj, "i")
VerifyHumanBypassToken(token, secretKey, clientIp, tnow) ==
    /\ VerifyCommon(token, secretKey, tnow)
    /\ IsStrField(token[1].obj, "i")
    /\ token[1].obj.i.str = IpHash(clientIp)

----------------------------------------------------------------------------
(* The soft gate of handleAlbumRequest (api/album.js)                      *)

BypassCookieTtlDefaultMs == 10080000    \* 7 * 24 * 60 * 1000
SoftThresholdDefault == 100
SoftWindowDefaultMs == 86400000         \* 24 * 60 * 60 * 1000

CookieEnabled(e) == e.TURNSTILE_BYPASS_COOKIE # "0"
CookieTtlMs(e) == OrNum(e.TURNSTILE_BYPASS_COOKIE_TTL_MS, BypassCookieTtlDefaultMs)
SoftThreshold(e) == OrNum(e.TURNSTILE_SOFT_THRESHOLD, SoftThresholdDefault)
SoftWindowMs(e) == OrNum(e.TURNSTILE_SOFT_WINDOW_MS, SoftWindowDefaultMs)

\* peekTurnstileSoftCount: the actor's count, 0 when it is unbound or the
\* call fails or times out (up = FALSE)
PeekTurnstileSoftCountNoFallback(e, v, t, up) == PeekResp(v, t).count
PeekTurnstileSoftCount(e, v, t, up) ==
    IF e.hasLimiter /\ up THEN PeekResp(v, t).count ELSE 0

\* adjustTurnstileSoftCounter: the actor's value afterwards
AdjustTurnstileSoftCounterTwice(e, v, t, delta, windowMs, up) ==
    IF e.hasLimiter /\ up
    THEN AdjustValue(AdjustValue(v, t, delta, windowMs), t, delta, windowMs)
    ELSE v
AdjustTurnstileSoftCounter(e, v, t, delta, windowMs, up) ==
    IF e.hasLimiter /\ up THEN AdjustValue(v, t, delta, windowMs) ELSE v

\* (a cookie check that does not look at TURNSTILE_BYPASS_COOKIE)
CookieOkWhenOff(e, cookie, clientIp, t) ==
    /\ cookie # {}
    /\ VerifyHumanBypassToken(TheOne(cookie), e.TURNSTILE_SECRET_KEY, clientIp, t)
\* the cookie presented is a bypass token that verifies
CookieOk(e, cookie, clientIp, t) ==
    /\ CookieEnabled(e)
    /\ cookie # {}
    /\ VerifyHumanBypassToken(TheOne(cookie), e.TURNSTILE_SECRET_KEY, clientIp, t)

\* enforcement starts with the request after threshold charged ones
EnforcedAbove(count, threshold) == count > threshold
Enforced(count, threshold) == count >= threshold

\* verifyTurnstileToken: success only on the service's success = true
VerifyAlways(verdict) == TRUE
VerifyUnlessRefused(verdict) == verdict # "fail"
VerifySucceeds(verdict) == verdict = "success"

\* The Turnstile part of handleAlbumRequest for one request: which path it
\* took, whether the request goes on to the secret check (pass), the soft
\* counter afterwards, the bypass token made, the background task queued,
\* and the calls made.
GateBase ==
    [path |-> "off", pass |-> TRUE, status |-> 0, token |-> {}, queued |-> FALSE,
     peeked |-> FALSE, count |-> 0, adjusted |-> FALSE, verified |-> FALSE]

\* (a gate that clears the counter when the verification succeeds)
GateResetsOnSuccess(e, v, clientIp, cookie, hasToken, verdict, peekUp, adjustUp, t) ==
    IF e.TURNSTILE_SECRET_KEY = ""
    THEN [GateBase EXCEPT !.path = "off"] @@ [soft |-> v]
    ELSE IF CookieOk(e, cookie, clientIp, t)
    THEN [GateBase EXCEPT
            !.path = "bypass",
            !.token = {IssueHumanBypassToken(e.TURNSTILE_SECRET_KEY, clientIp,
                                             CookieTtlMs(e), t)}]
         @@ [soft |-> v]
    ELSE LET count == PeekTurnstileSoftCount(e, v, t, peekUp)
             b == [GateBase EXCEPT !.peeked = TRUE, !.count = count]
         IN IF Enforced(count, SoftThreshold(e))
            THEN IF ~hasToken
                 THEN [b EXCEPT !.path = "enforced", !.pass = FALSE, !.status = 403]
                      @@ [soft |-> v]
                 ELSE IF ~VerifySucceeds(verdict)
                 THEN [b EXCEPT !.path = "enforced", !.pass = FALSE, !.status = 403,
                                !.verified = TRUE]
                      @@ [soft |-> v]
                 ELSE [b EXCEPT
                         !.path = "enforced", !.verified = TRUE,
                         !.token = IF CookieEnabled(e)
                                   THEN {IssueHumanBypassToken(
                                            e.TURNSTILE_SECRET_KEY, clientIp,
                                            CookieTtlMs(e), t)}
                                   ELSE {}]
                      @@ [soft |-> ZeroCounter]
            ELSE IF hasToken /\ e.hasWaitUntil
                 THEN [b EXCEPT !.path = "soft", !.queued = TRUE] @@ [soft |-> v]
                 ELSE [b EXCEPT !.path = "soft", !.adjusted = TRUE]
                      @@ [soft |-> AdjustTurnstileSoftCounter(
                                      e, v, t, 1, SoftWindowMs(e), adjustUp)]

\* (a gate that looks for the album before anything else)
GateAlbumFirst(e, v, clientIp, cookie, hasToken, verdict, peekUp, adjustUp, t) ==
    IF "BUCKET" \in DOMAIN e /\ \E a \in DOMAIN e.BUCKET : e.BUCKET[a].st = "absent"
    THEN [GateBase EXCEPT !.path = "enforced", !.pass = FALSE, !.status = 404]
         @@ [soft |-> v]
    ELSE
        IF e.TURNSTILE_SECRET_KEY = ""
        THEN [GateBase EXCEPT !.path = "off"] @@ [soft |-> v]
        ELSE IF CookieOk(e, cookie, clientIp, t)
        THEN [GateBase EXCEPT
                !.path = "bypass",
                !.token = {IssueHumanBypassToken(e.TURNSTILE_SECRET_KEY, clientIp,
                                                 CookieTtlMs(e), t)}]
             @@ [soft |-> v]
        ELSE LET count == PeekTurnstileSoftCount(e, v, t, peekUp)
                 b == [GateBase EXCEPT !.peeked = TRUE, !.count = count]
             IN IF Enforced(count, SoftThreshold(e))
                THEN IF ~hasToken
                     THEN [b EXCEPT !.path = "enforced", !.pass = FALSE, !.status = 403]
                          @@ [soft |-> v]
                     ELSE IF ~VerifySucceeds(verdict)
                     THEN [b EXCEPT !.path = "enforced", !.pass = FALSE, !.status = 403,
                                    !.verified = TRUE]
                          @@ [soft |-> v]
                     ELSE [b EXCEPT
                             !.path = "enforced", !.verified = TRUE,
                             !.token = IF CookieEnabled(e)
                                       THEN {IssueHumanBypassToken(
                                                e.TURNSTILE_SECRET_KEY, clientIp,
                                                CookieTtlMs(e), t)}
                                       ELSE {}]
                          @@ [soft |-> v]
                ELSE IF hasToken /\ e.hasWaitUntil
                     THEN [b EXCEPT !.path = "soft", !.queued = TRUE] @@ [soft |-> v]
                     ELSE [b EXCEPT !.path = "soft", !.adjusted = TRUE]
                          @@ [soft |-> AdjustTurnstileSoftCounter(
                                          e, v, t, 1, SoftWindowMs(e), adjustUp)]
Gate(e, v, clientIp, cookie, hasToken, verdict, peekUp, adjustUp, t) ==
    IF e.TURNSTILE_SECRET_KEY = ""
    THEN [GateBase EXCEPT !.path = "off"] @@ [soft |-> v]
    ELSE IF CookieOk(e, cookie, clientIp, t)
    THEN [GateBase EXCEPT
            !.path = "bypass",
            !.token = {IssueHumanBypassToken(e.TURNSTILE_SECRET_KEY, clientIp,
                                             CookieTtlMs(e), t)}]
         @@ [soft |-> v]
    ELSE LET count == PeekTurnstileSoftCount(e, v, t, peekUp)
             b == [GateBase EXCEPT !.peeked = TRUE, !.count = count]
         IN IF Enforced(count, SoftThreshold(e))
            THEN IF ~hasToken
                 THEN [b EXCEPT !.path = "enforced", !.pass = FALSE, !.status = 403]
                      @@ [soft |-> v]
                 ELSE IF ~VerifySucceeds(verdict)
                 THEN [b EXCEPT !.path = "enforced", !.pass = FALSE, !.status = 403,
                                !.verified = TRUE]
                      @@ [soft |-> v]
                 ELSE [b EXCEPT
                         !.path = "enforced", !.verified = TRUE,
                         !.token = IF CookieEnabled(e)
                                   THEN {IssueHumanBypassToken(
                                            e.TURNSTILE_SECRET_KEY, clientIp,
                                            CookieTtlMs(e), t)}
                                   ELSE {}]
                      @@ [soft |-> v]
            ELSE IF hasToken /\ e.hasWaitUntil
                 THEN [b EXCEPT !.path = "soft", !.queued = TRUE] @@ [soft |-> v]
                 ELSE [b EXCEPT !.path = "soft", !.adjusted = TRUE]
                      @@ [soft |-> AdjustTurnstileSoftCounter(
                                      e, v, t, 1, SoftWindowMs(e), adjustUp)]

----------------------------------------------------------------------------
(* Issuing, altering and verifying one token *)

Keys == {"key1", "key2"}
IPs == {"ip1", "ip2"}
BypassTtlInputs == {NaN, TickMs, 3 * TickMs}

\* what someone without the key can make of token t: another payload under
\* the old signature, a signature of their own, fewer or more parts
Altered(t) ==
    LET p == t[1].obj
        later == B64Json([p EXCEPT !.exp = Num(@.num + TickMs)])
        other == B64Json([p EXCEPT !.iat = Num(@.num + 1)])
    IN { <<later, t[2]>>,
         <<other, t[2]>>,
         <<later, HmacB64("evil", later)>>,
         <<t[1], HmacB64("evil", t[1])>>,
         <<t[1]>>,
         <<t[1], EmptyPart>>,
         <<t[1], t[2], t[2]>> }

TokIssue ==
    /\ tok.st = "none"
    /\ \/ \E key \in Keys :
          tok' = [st |-> "issued", kind |-> "admin", key |-> key, ip |-> "",
                  iat |-> now,
                  issued |-> IssueAdminSessionToken(key, now),
                  presented |-> IssueAdminSessionToken(key, now)]
       \/ \E key \in Keys, ip \in IPs, ttlMs \in BypassTtlInputs :
          tok' = [st |-> "issued", kind |-> "human", key |-> key, ip |-> ip,
                  iat |-> now,
                  issued |-> IssueHumanBypassToken(key, ip, ttlMs, now),
                  presented |-> IssueHumanBypassToken(key, ip, ttlMs, now)]

\* payload parts an issuer holding the key could have signed but this one
\* never does: another version, iat or exp missing or a string, JSON that
\* is no object, the empty string
OddParts(t) ==
    LET p == t[1].obj
    IN { B64Json([p EXCEPT !.v = Num(2)]),
         B64Json([p EXCEPT !.v = Str("1")]),
         B64Json([f \in DOMAIN p \ {"iat"} |-> p[f]]),
         B64Json([f \in DOMAIN p \ {"exp"} |-> p[f]]),
         B64Json([p EXCEPT !.iat = Str("soon")]),
         B64Json([p EXCEPT !.exp = Str("never")]),
         [raw |-> "bnVsbA"],
         EmptyPart }

\* a token is presented that carries the key's signature over an odd part
TokSignOdd ==
    /\ tok.st # "none"
    /\ \E b \in OddParts(tok.issued) :
          tok' = [st |-> "issued", kind |-> tok.kind, key |-> tok.key,
                  ip |-> tok.ip, iat |-> tok.iat, issued |-> tok.issued,
                  presented |-> <<b, HmacB64(tok.key, b)>>]

TokAlter ==
    /\ tok.st # "none"
    /\ \E t \in Altered(tok.issued) :
          tok' = [st |-> "issued", kind |-> tok.kind, key |-> tok.key,
                  ip |-> tok.ip, iat |-> tok.iat, issued |-> tok.issued,
                  presented |-> t]

TokVerify ==
    /\ tok.st # "none"
    /\ \E vkey \in Keys, vip \in (IF tok.kind = "admin" THEN {""} ELSE IPs) :
          tok' = [st |-> "verified", kind |-> tok.kind, key |-> tok.key,
                  ip |-> tok.ip, iat |-> tok.iat, issued |-> tok.issued,
                  presented |-> tok.presented,
                  vkey |-> vkey, vip |-> vip, at |-> now,
                  ok |-> IF tok.kind = "admin"
                         THEN VerifyAdminSessionToken(tok.presented, vkey, now)
                         ELSE VerifyHumanBypassToken(tok.presented, vkey, vip, now)]

----------------------------------------------------------------------------
(* Inputs of the counter actions *)

LimitInputs == {NaN, 0, 1, 2}
WindowInputs == {NaN, 0, TickMs, 2 * TickMs}
DeltaInputs == {NaN, -1, 0, 1}

(* The reference window: what a correct fixed window does with the valid   *)
(* check() calls it has seen. pure = no adjust()/reset() has interfered.   *)
NoGhost == [end |-> 0, n |-> 0, wins |-> 0, pure |-> TRUE]

Tainted == [end |-> 0, n |-> 0, wins |-> 0, pure |-> FALSE]

GhostCheck(g, t, windowMs) ==
    IF ~g.pure THEN g
    ELSE IF g.end = 0 \/ t >= g.end
    THEN [g EXCEPT !.end = t + windowMs, !.n = 1, !.wins = @ + 1]
    ELSE [g EXCEPT !.n = IF @ <= MaxCount THEN @ + 1 ELSE @]

----------------------------------------------------------------------------
(* Actions on one counter key *)

\* the clock makes MaxTicks steps, and a few more after a long sleep
ClockMayTick ==
    \/ now < TickMs * (MaxTicks + 1)
    \/ /\ now >= AdminSessionTtlMs
       /\ now < AdminSessionTtlMs + 2 * TickMs

\* the response r of an action run at the current time on the current storage
\* (cold: the actor had no memo when the action began)
Sent(r) == [r EXCEPT !.at = now, !.before = stored] @@ [cold |-> mem = {}]

Tick ==
    /\ ClockMayTick
    /\ now' = now + TickMs
    /\ aresp' = [op |-> "none"]     \* the response has gone out
    /\ UNCHANGED <<counterVars, bucket, amem, astored, aenv, aghost, tok, idx, ns, wk, inflight, gateVars>>

\* the actor is evicted: the memo is lost, durable storage stays
Restart ==
    /\ mem # {}
    /\ mem' = {}
    /\ UNCHANGED <<now, stored, cresp, cghost, otherVars>>

DoCheck ==
    \E limit \in LimitInputs, windowMs \in WindowInputs :
        IF CheckInvalid(limit, windowMs)
        THEN /\ cresp' = Sent([NoResp EXCEPT !.op = "check", !.status = 400])
                            @@ [limitIn |-> limit, windowMs |-> windowMs]
             /\ UNCHANGED <<now, mem, stored, cghost, otherVars>>
        ELSE LET v  == Load(mem, stored)
                 v2 == CheckValue(v, now, windowMs)
             IN /\ v.count < MaxCount
                /\ mem' = {v2}
                /\ stored' = {v2}
                /\ cresp' = Sent(CheckResp(v2, limit))
                            @@ [limitIn |-> limit, windowMs |-> windowMs]
                /\ cghost' = GhostCheck(cghost, now, windowMs)
                /\ UNCHANGED <<now, otherVars>>

DoPeek ==
    LET v == Load(mem, stored)
    IN /\ mem' = {v}
       /\ cresp' = Sent(PeekResp(v, now))
       /\ UNCHANGED <<now, stored, cghost, otherVars>>

DoAdjust ==
    \E delta \in DeltaInputs, windowMs \in WindowInputs :
        IF ~IsFinite(delta)
        THEN /\ cresp' = Sent([NoResp EXCEPT !.op = "adjust", !.status = 400])
                            @@ [delta |-> delta, windowMs |-> windowMs]
             /\ UNCHANGED <<now, mem, stored, cghost, otherVars>>
        ELSE LET v  == Load(mem, stored)
                 v2 == AdjustValue(v, now, delta, windowMs)
             IN /\ v.count < MaxCount
                /\ mem' = {v2}
                /\ stored' = {v2}
                /\ cresp' = Sent([NoResp EXCEPT !.op = "adjust", !.status = 200,
                                                !.count = v2.count,
                                                !.resetAtMs = v2.resetAtMs])
                            @@ [delta |-> delta, windowMs |-> windowMs]
                /\ cghost' = Tainted
                /\ UNCHANGED <<now, otherVars>>

DoReset ==
    \E windowMs \in WindowInputs :
        LET v2 == ResetValue(now, windowMs)
        IN /\ mem' = {v2}
           /\ stored' = {v2}
           /\ cresp' = Sent([NoResp EXCEPT !.op = "reset", !.status = 200,
                                           !.resetAtMs = v2.resetAtMs])
           /\ cghost' = Tainted
           /\ UNCHANGED <<now, otherVars>>

----------------------------------------------------------------------------
(* Inputs and history of the listing handler *)

SoftT == 2          \* TURNSTILE_SOFT_THRESHOLD of the gated configurations
SoftWindowTicks == 2
MaxBg == 1          \* background verifications pending per client

ClientIps == {"ip1"}

NoGateEnv ==
    [TURNSTILE_SECRET_KEY |-> "", TURNSTILE_BYPASS_COOKIE |-> "1",
     TURNSTILE_BYPASS_COOKIE_TTL_MS |-> NaN, TURNSTILE_SOFT_THRESHOLD |-> NaN,
     TURNSTILE_SOFT_WINDOW_MS |-> NaN, hasLimiter |-> TRUE, hasWaitUntil |-> TRUE,
     RATE_LIMIT_DISABLED |-> ""]

\* the gate switched on: cookie on with a long TTL, cookie off, and cookie on
\* with a TTL under the floor in a runtime without ctx.waitUntil
GateEnvs ==
    { [NoGateEnv EXCEPT !.TURNSTILE_SECRET_KEY = "key1",
                        !.TURNSTILE_BYPASS_COOKIE_TTL_MS = 3 * TickMs,
                        !.TURNSTILE_SOFT_THRESHOLD = SoftT,
                        !.TURNSTILE_SOFT_WINDOW_MS = SoftWindowTicks * TickMs],
      [NoGateEnv EXCEPT !.TURNSTILE_SECRET_KEY = "key1",
                        !.TURNSTILE_BYPASS_COOKIE = "0",
                        !.TURNSTILE_SOFT_THRESHOLD = SoftT,
                        !.TURNSTILE_SOFT_WINDOW_MS = SoftWindowTicks * TickMs],
      [NoGateEnv EXCEPT !.TURNSTILE_SECRET_KEY = "key1",
                        !.TURNSTILE_BYPASS_COOKIE_TTL_MS = TickMs,
                        !.TURNSTILE_SOFT_THRESHOLD = SoftT,
                        !.TURNSTILE_SOFT_WINDOW_MS = SoftWindowTicks * TickMs,
                        !.hasWaitUntil = FALSE] }

\* the Cookie header: none, the browser's own cookie, a token issued to
\* another address; with the cookie switched off, a token of the key for
\* this address, as a client kept it from before the switch
CookieInputs(ip) ==
    { {}, jar[ip],
      {IssueHumanBypassToken(genv.TURNSTILE_SECRET_KEY, "ip2", CookieTtlMs(genv), now)} }
    \cup (IF CookieEnabled(genv) THEN {}
          ELSE {{IssueHumanBypassToken(genv.TURNSTILE_SECRET_KEY, ip,
                                       CookieTtlMs(genv), now)}})

\* how the call to the verification service ends: success = true,
\* success = false, a transport error, the handler's timer
Verdicts == {"success", "fail", "error", "timeout"}

\* body.turnstileToken given or not, and how its verification would end
TokenInputs ==
    {[hasToken |-> FALSE, verdict |-> "none"]}
        \cup {[hasToken |-> TRUE, verdict |-> v] : v \in Verdicts}

ListingSecretInputs == {"", "k1", "k3"}

(* The reference count per client: the requests without a token and        *)
(* without a valid cookie seen in the running window, while nothing else   *)
(* has touched the client's counter (clean).                               *)
NoGateGhost == [n |-> 0, end |-> 0, clean |-> TRUE]

RefCount(g, t) == IF g.end > 0 /\ t < g.end THEN g.n ELSE 0

GateTainted == [n |-> 0, end |-> 0, clean |-> FALSE]

GateGhost(g, e, r, hasToken, peekUp, adjustUp, t) ==
    IF r.path \in {"off", "bypass"} \/ ~g.clean THEN g
    ELSE IF ~e.hasLimiter \/ ~peekUp THEN GateTainted
    ELSE IF RefCount(g, t) >= SoftThreshold(e) THEN g
    ELSE IF hasToken \/ ~adjustUp THEN GateTainted
    ELSE [n |-> RefCount(g, t) + 1,
          end |-> IF RefCount(g, t) = 0 /\ ~(g.end > 0 /\ t < g.end)
                  THEN t + SoftWindowMs(e) ELSE g.end,
          clean |-> TRUE]

----------------------------------------------------------------------------
(* POST /api/album/<albumId> *)

\* the request after the gate: the secret check, the listing, the cookie
\* (a handler that loads the album's settings before it looks at the gate)
AlbumRequestBodyReadsFirst(a, ip, g, r, doUp, secret) ==
    IF ~g.pass
    THEN \E l \in {GetAlbumInfoWithSecrets(a, doUp)} :
           /\ AfterLoad(a, l)
           /\ aresp' = [r EXCEPT !.status = g.status]
           /\ jar' = jar
    ELSE \E l \in {GetAlbumInfoWithSecrets(a, doUp)} :
         \E c \in {CheckAlbumSecret(l.res, secret)} :
         \E h \in {[r EXCEPT !.secretChecked = TRUE, !.viaDO = l.viaDO,
                               !.matched = IF c.success THEN {c.matchedSecret}
                                           ELSE {}] @@ [used |-> l.res]} :
           /\ AfterLoad(a, l)
           /\ IF ~c.success
              THEN /\ aresp' = [h EXCEPT !.status = c.status]
                   /\ jar' = jar
              ELSE IF ~c.info.hasFiles
              THEN /\ aresp' = [h EXCEPT !.status = 500]
                   /\ jar' = jar
              ELSE /\ aresp' = [h EXCEPT
                                  !.status = 200,
                                  !.setCookie = g.token,
                                  !.files = SignedFiles(a, ListedNames(c.info),
                                                        c.matchedSecret)]
                   /\ jar' = IF g.token # {} THEN [jar EXCEPT ![ip] = g.token]
                             ELSE jar
AlbumRequestBody(a, ip, g, r, doUp, secret) ==
    IF ~g.pass
    THEN /\ aresp' = [r EXCEPT !.status = g.status]
         /\ UNCHANGED <<amem, astored, aghost, jar>>
    ELSE \E l \in {GetAlbumInfoWithSecrets(a, doUp)} :
         \E c \in {CheckAlbumSecret(l.res, secret)} :
         \E h \in {[r EXCEPT !.secretChecked = TRUE, !.viaDO = l.viaDO,
                               !.matched = IF c.success THEN {c.matchedSecret}
                                           ELSE {}] @@ [used |-> l.res]} :
           /\ AfterLoad(a, l)
           /\ IF ~c.success
              THEN /\ aresp' = [h EXCEPT !.status = c.status]
                   /\ jar' = jar
              ELSE IF ~c.info.hasFiles
              THEN /\ aresp' = [h EXCEPT !.status = 500]
                   /\ jar' = jar
              ELSE /\ aresp' = [h EXCEPT
                                  !.status = 200,
                                  !.setCookie = g.token,
                                  !.files = SignedFiles(a, ListedNames(c.info),
                                                        c.matchedSecret)]
                   /\ jar' = IF g.token # {} THEN [jar EXCEPT ![ip] = g.token]
                             ELSE jar

\* inputs that are read only on some paths take one value on the others
GateOn == genv.TURNSTILE_SECRET_KEY # ""

AlbumRequest ==
    \E a \in Albums, ip \in ClientIps, badJson \in BOOLEAN :
        /\ UNCHANGED <<now, counterVars, tok, idx, ns, wk, inflight, genv, bucket, aenv>>
        /\ IF badJson
           THEN /\ aresp' = [op |-> "album", album |-> a, ip |-> ip, at |-> now,
                             status |-> 400, path |-> "none"]
                /\ UNCHANGED <<amem, astored, aghost, soft, jar, bg, gghost>>
           ELSE \E cookie \in (IF GateOn THEN CookieInputs(ip) ELSE {{}}),
                   tk \in (IF GateOn THEN TokenInputs
                           ELSE {t \in TokenInputs : ~t.hasToken}) :
                \E peekUp \in UpInputs(GateOn /\ ~CookieOk(genv, cookie, ip, now)) :
                \E g0 \in {Gate(genv, soft[ip], ip, cookie, tk.hasToken, tk.verdict,
                                peekUp, TRUE, now)} :
                \E adjustUp \in UpInputs(g0.adjusted),
                   doUp \in UpInputs(g0.pass /\ aenv.hasInfoDO),
                   secret \in (IF g0.pass THEN ListingSecretInputs ELSE {""}) :
                \E g \in {Gate(genv, soft[ip], ip, cookie, tk.hasToken, tk.verdict,
                               peekUp, adjustUp, now)} :
                \E gg \in {GateGhost(gghost[ip], genv, g, tk.hasToken, peekUp,
                                     adjustUp, now)} :
                  /\ g.adjusted => soft[ip].count <= SoftT
                  /\ g.queued => bg[ip] < MaxBg
                  /\ soft' = [soft EXCEPT ![ip] = g.soft]
                  /\ bg' = [bg EXCEPT ![ip] = IF g.queued THEN @ + 1 ELSE @]
                  /\ gghost' = [gghost EXCEPT ![ip] = gg]
                  /\ AlbumRequestBody(
                        a, ip, g,
                        [op |-> "album", album |-> a, ip |-> ip, at |-> now,
                         status |-> 0, path |-> g.path,
                         cookie |-> cookie, hasToken |-> tk.hasToken,
                         peeked |-> g.peeked, count |-> g.count,
                         adjusted |-> g.adjusted, verified |-> g.verified,
                         queued |-> g.queued,
                         verdict |-> IF g.verified THEN tk.verdict ELSE "none",
                         made |-> g.token, secretChecked |-> FALSE,
                         setCookie |-> {}, files |-> <<>>, secret |-> secret,
                         dirty |-> aghost[a].dirty, viaDO |-> FALSE,
                         nRef |-> RefCount(gghost[ip], now), clean |-> gg.clean,
                         peekUp |-> peekUp, adjustUp |-> adjustUp,
                         before |-> soft[ip], matched |-> {}],
                        doUp, secret)

\* a background verification queued by ctx.waitUntil runs to its end
BackgroundVerify ==
    \E ip \in ClientIps, verdict \in Verdicts :
    \E adjustUp \in UpInputs(~VerifySucceeds(verdict)) :
        /\ bg[ip] > 0
        /\ (~VerifySucceeds(verdict) /\ adjustUp) => soft[ip].count <= SoftT
        /\ bg' = [bg EXCEPT ![ip] = @ - 1]
        /\ soft' = [soft EXCEPT ![ip] =
                      IF VerifySucceeds(verdict) THEN @
                      ELSE AdjustTurnstileSoftCounter(genv, @, now, 1,
                                                      SoftWindowMs(genv), adjustUp)]
        /\ aresp' = [op |-> "background", ip |-> ip, at |-> now,
                     verdict |-> verdict, adjustUp |-> adjustUp,
                     before |-> soft[ip], jar |-> jar[ip]]
        /\ UNCHANGED <<now, counterVars, bucket, amem, astored, aenv, aghost, tok, idx, ns, wk, inflight,
                       genv, jar, gghost>>

----------------------------------------------------------------------------
(* Concurrent check() calls on one counter key (RateLimiterDO.fetch).      *)
(* A call runs from one await to the next without interruption. Its first  *)
(* await, request.json(), lets other calls in. While a call waits for      *)
(* storage.get in load(), the actor's input gate holds every other event   *)
(* back; storage.put completes from the write buffer, so from the memo on  *)
(* a call runs to its response.                                            *)

NCalls == 3         \* calls in flight on the key
Calls == 1 .. NCalls

\* the limits the callers of one run pass, and a window that outlasts the run
ConcLimits == {1, 2}
ConcWindowMs == TickMs * (MaxTicks + 2)

\* a call: where it is, the time it read, what storage.get read for it,
\* its answer, and whether other calls waited while it loaded
NewCall ==
    [pc |-> "new", at |-> 0, got |-> {}, count |-> 0, allowed |-> FALSE,
     cold |-> FALSE]

\* limit: the limit of the run; gate: the calls waiting for storage.get
NoCalls == [limit |-> 0, gate |-> {}, call |-> [c \in Calls |-> NewCall]]

\* the input gate lets an event in: no storage.get is under way
InputGateAbsent == TRUE
InputGateOpen == inflight.gate = {}

\* lines 87-100 from the memo v on: the window, the count, the put, the answer
CallRuns(c, v, t) ==
    \E v2 \in {CheckValue(v, t, ConcWindowMs)} :
        /\ mem' = {v2}
        /\ stored' = {v2}
        /\ inflight' = [inflight EXCEPT
                           !.gate = @ \ {c},
                           !.call[c].pc = "done",
                           !.call[c].at = 0,
                           !.call[c].got = {},
                           !.call[c].count = v2.count,
                           !.call[c].allowed = CheckAllowed(v2.count, inflight.limit)]

\* the request of call c is delivered: fetch() runs up to await request.json()
CallArrives ==
    \E c \in Calls :
        /\ InputGateOpen
        /\ inflight.call[c].pc = "new"
        /\ inflight' = [inflight EXCEPT !.call[c].pc = "body"]
        /\ UNCHANGED <<now, counterVars, albumVars, tok, idx, ns, wk, gateVars>>

\* the body of call c has been read: with the memo set the call runs to its
\* response, without it load() asks storage and the input gate closes
CallBody ==
    \E c \in Calls :
        /\ InputGateOpen
        /\ inflight.call[c].pc = "body"
        /\ IF mem # {}
           THEN CallRuns(c, TheOne(mem), now)
           ELSE /\ inflight' = [inflight EXCEPT
                                  !.gate = @ \cup {c},
                                  !.call[c].pc = "loading",
                                  !.call[c].at = now,
                                  !.call[c].got = stored,
                                  !.call[c].cold =
                                      \E d \in Calls \ {c} : inflight.call[d].pc = "body"]
                /\ UNCHANGED <<mem, stored>>
        /\ UNCHANGED <<now, cresp, cghost, albumVars, tok, idx, ns, wk, gateVars>>

\* storage.get of call c completes: the memo is set, the call runs on with
\* the time it read before the load
CallLoaded ==
    \E c \in Calls :
        /\ c \in inflight.gate
        /\ inflight.call[c].pc = "loading"
        /\ CallRuns(c, Load({}, inflight.call[c].got), inflight.call[c].at)
        /\ UNCHANGED <<now, cresp, cghost, albumVars, tok, idx, ns, wk, gateVars>>

\* the actor is evicted between requests
CallEvict ==
    /\ mem # {}
    /\ \A c \in Calls : inflight.call[c].pc \in {"new", "done"}
    /\ mem' = {}
    /\ UNCHANGED <<now, stored, cresp, cghost, otherVars>>

----------------------------------------------------------------------------
(* The Worker's fetch handler on POST /api/album/<albumId>, step by step:  *)
(* the global rate limit, the gate, the load of the album's settings.      *)
(* wk.pc is where the handler waits: "rateLimit" on the rate-limiter       *)
(* actor, "route" before handleAlbumRequest, "load" on the settings.       *)

AlbumApiLimit == 120        \* getBucketConfig, bucket album_api
AlbumApiWindowMs == 60000
MaxOver == 2                \* checks counted beyond the limit

\* the Worker handles no request
NoRequest == [pc |-> "idle"]

TruthyEnv(v) == v \in {"1", "true", "yes", "on"}

\* enforceRateLimit asks the actor unless switched off or unbound
RateLimitAsked(e) == ~TruthyEnv(e.RATE_LIMIT_DISABLED) /\ e.hasLimiter

\* how the call to the actor ends, when it ends: the actor's answer, a
\* response that is not OK, an OK response whose body is not JSON, a
\* rejected promise (the actor threw or could not be reached)
CallOutcomes == {"answer", "nonOk", "garbled", "throws"}

\* env as the handlers receive it: the bindings and the bucket
WorkerEnv(b) == genv @@ [BUCKET |-> b]

\* the bucket of the other world: the album is there where it was not, and
\* is not where it was
OtherBucket ==
    [a \in Albums |->
        IF bucket[a] = NoObject
        THEN OkObject(TheOne({i \in InfoInputs : i.secret = "k2"}))
        ELSE NoObject]

\* enforceRateLimit: "next" (null), "429", or the exception of the call,
\* which nothing catches
EnforceRateLimit(e, outcome, allowed) ==
    IF ~RateLimitAsked(e) THEN "next"
    ELSE CASE outcome = "throws"  -> "throw"
           [] outcome = "nonOk"   -> "next"
           [] outcome = "garbled" -> "next"
           [] outcome = "answer"  -> IF allowed THEN "next" ELSE "429"

\* the status the client sees when the request ends at the rate limit
RateLimitStatus(x) ==
    CASE x = "429" -> 429
      [] x = "throw" -> 500
      [] x = "next" -> 0

\* a request arrives; the rate-limiter actor of album_api:<ip> is called
WorkerFetch ==
    \E ip \in ClientIps :
        /\ wk.pc = "idle"
        /\ wk' = [pc |-> IF RateLimitAsked(genv) THEN "rateLimit" ELSE "route",
                  ip |-> ip, rl |-> "none"]
        /\ aresp' = [op |-> "none"]
        /\ UNCHANGED <<now, counterVars, bucket, amem, astored, aenv, aghost, tok, idx, ns,
                       gateVars, inflight>>

\* the response of the Worker to a request that ended at the rate limit
WorkerResp(ip, outcome, status, twin) ==
    [op |-> "worker", ip |-> ip, at |-> now, rl |-> outcome, status |-> status,
     twin |-> twin]

\* the call to the actor ends; on an answer the actor has run check()
RateLimitAnswer ==
    \E outcome \in CallOutcomes :
        /\ wk.pc = "rateLimit"
        /\ \E v2 \in {CheckValue(Load(mem, stored), now, AlbumApiWindowMs)} :
           \E r \in {CheckResp(v2, AlbumApiLimit)} :
           \E e \in {EnforceRateLimit(WorkerEnv(bucket), outcome, r.allowed)} :
           \E twin \in {RateLimitStatus(EnforceRateLimit(WorkerEnv(OtherBucket),
                                                           outcome, r.allowed))} :
             /\ IF outcome = "answer"
                THEN /\ v2.count <= AlbumApiLimit + MaxOver
                     /\ mem' = {v2}
                     /\ stored' = {v2}
                ELSE UNCHANGED <<mem, stored>>
             /\ CASE e = "next" ->
                       /\ wk' = [wk EXCEPT !.pc = "route", !.rl = outcome]
                       /\ aresp' = aresp
                  [] e = "429" ->
                       /\ wk' = NoRequest
                       /\ aresp' = WorkerResp(wk.ip, outcome, RateLimitStatus(e), twin)
                  [] e = "throw" ->
                       \* the exception leaves fetch(): the runtime's error page
                       /\ wk' = NoRequest
                       /\ aresp' = WorkerResp(wk.ip, outcome, RateLimitStatus(e), twin)
        /\ UNCHANGED <<now, cresp, cghost, bucket, amem, astored, aenv, aghost, tok, idx, ns,
                       gateVars, inflight>>

\* handleAlbumRequest up to the secret check: the body, the gate
Route ==
    \E a \in Albums, badJson \in BOOLEAN :
        /\ wk.pc = "route"
        /\ UNCHANGED <<now, counterVars, tok, idx, ns, genv, bucket, aenv, gghost, inflight>>
        /\ IF badJson
           THEN /\ aresp' = [op |-> "album", album |-> a, ip |-> wk.ip, at |-> now,
                             status |-> 400, path |-> "none"]
                /\ wk' = NoRequest
                /\ UNCHANGED <<amem, astored, aghost, soft, jar, bg>>
           ELSE \E ip \in {wk.ip} :
                \E cookie \in (IF GateOn THEN {{}, jar[ip]} ELSE {{}}),
                   tk \in (IF GateOn THEN TokenInputs
                           ELSE {t \in TokenInputs : ~t.hasToken}) :
                \E peekUp \in UpInputs(GateOn /\ ~CookieOk(genv, cookie, ip, now)) :
                \E g0 \in {Gate(WorkerEnv(bucket), soft[ip], ip, cookie, tk.hasToken,
                                tk.verdict, peekUp, TRUE, now)} :
                \E adjustUp \in UpInputs(g0.adjusted),
                   secret \in (IF g0.pass THEN ListingSecretInputs ELSE {""}) :
                \E g \in {Gate(WorkerEnv(bucket), soft[ip], ip, cookie, tk.hasToken,
                               tk.verdict, peekUp, adjustUp, now)} :
                \E twin \in {Gate(WorkerEnv(OtherBucket), soft[ip], ip, cookie,
                                  tk.hasToken, tk.verdict, peekUp, adjustUp, now)} :
                \E r \in {[op |-> "album", album |-> a, ip |-> ip, at |-> now,
                           status |-> 0, path |-> g.path,
                           cookie |-> cookie, hasToken |-> tk.hasToken,
                           peeked |-> g.peeked, count |-> g.count,
                           adjusted |-> g.adjusted, verified |-> g.verified,
                           queued |-> g.queued,
                           verdict |-> IF g.verified THEN tk.verdict ELSE "none",
                           made |-> g.token, secretChecked |-> FALSE,
                           setCookie |-> {}, files |-> <<>>, secret |-> secret,
                           dirty |-> aghost[a].dirty, viaDO |-> FALSE,
                           nRef |-> 0, clean |-> FALSE,
                           softAfter |-> g.soft, twin |-> twin, matched |-> {}]} :
                  /\ g.adjusted => soft[ip].count <= SoftT
                  /\ g.queued => bg[ip] < MaxBg
                  /\ soft' = [soft EXCEPT ![ip] = g.soft]
                  /\ bg' = [bg EXCEPT ![ip] = IF g.queued THEN @ + 1 ELSE @]
                  /\ IF ~g.pass
                     THEN /\ AlbumRequestBody(a, ip, g, r, TRUE, secret)
                          /\ wk' = NoRequest
                     ELSE /\ wk' = [pc |-> "load", ip |-> ip, a |-> a, g |-> g,
                                    r |-> r, secret |-> secret]
                          /\ UNCHANGED <<amem, astored, aghost, jar, aresp>>

\* getAlbumInfoWithSecrets without the actor bound: the bucket is read
LoadDirect ==
    /\ wk.pc = "load"
    /\ ~aenv.hasInfoDO
    /\ AlbumRequestBody(wk.a, wk.ip, wk.g, wk.r, TRUE, wk.secret)
    /\ wk' = NoRequest
    /\ UNCHANGED <<now, counterVars, tok, idx, ns, genv, bucket, aenv, soft, bg, gghost,
                   inflight>>

\* the call to AlbumInfoDO ends, with the actor's reply or with a failure
\* that getAlbumInfoWithSecrets catches and answers from the bucket
InfoAnswer ==
    \E doUp \in BOOLEAN :
        /\ wk.pc = "load"
        /\ aenv.hasInfoDO
        /\ AlbumRequestBody(wk.a, wk.ip, wk.g, wk.r, doUp, wk.secret)
        /\ wk' = NoRequest
        /\ UNCHANGED <<now, counterVars, tok, idx, ns, genv, bucket, aenv, soft, bg, gghost,
                   inflight>>

\* the configurations of the Worker: the gate on in a runtime that hands
\* the handler no ctx, with the global rate limit on or switched off
WorkerGateEnv(d) ==
      [NoGateEnv EXCEPT !.TURNSTILE_SECRET_KEY = "key1",
                        !.TURNSTILE_BYPASS_COOKIE_TTL_MS = 3 * TickMs,
                        !.TURNSTILE_SOFT_THRESHOLD = SoftT,
                        !.TURNSTILE_SOFT_WINDOW_MS = SoftWindowTicks * TickMs,
                        !.hasWaitUntil = FALSE,
                        !.RATE_LIMIT_DISABLED = d]

\* the actors bound and asked, or the rate limit off and no AlbumInfoDO
WorkerEnvs ==
    { [g |-> WorkerGateEnv(""), a |-> [NoAlbumEnv EXCEPT !.hasInfoDO = TRUE]],
      [g |-> WorkerGateEnv("true"), a |-> NoAlbumEnv] }

GateIdle ==
    /\ soft = [ip \in ClientIps |-> ZeroCounter]
    /\ jar = [ip \in ClientIps |-> {}]
    /\ bg = [ip \in ClientIps |-> 0]
    /\ gghost = [ip \in ClientIps |-> NoGateGhost]


----------------------------------------------------------------------------
(* AlbumInfoDO.refresh in two steps: the actor waits for BUCKET.get, which *)
(* is no storage operation of its own, so other requests to the actor are  *)
(* delivered meanwhile. wk.pc = "refresh": a get() is between its read of  *)
(* info.json and save().                                                   *)

\* get() finds no fresh entry and reads info.json
RefreshReads ==
    \E a \in Albums :
        /\ aenv.hasInfoDO
        /\ wk.pc = "idle"
        /\ InfoGet(a, amem[a], astored[a], bucket[a], now, NaN, aenv).read
        /\ wk' = [pc |-> "refresh", album |-> a, obj |-> bucket[a]]
        /\ amem' = [amem EXCEPT ![a] = InfoLoad(amem[a], astored[a])]
        /\ aresp' = [op |-> "none"]
        /\ UNCHANGED <<now, counterVars, tok, idx, ns, inflight, gateVars, bucket, astored, aenv, aghost>>

\* refresh() goes on with what it read: save(v), and get() answers
RefreshSaves ==
    /\ wk.pc = "refresh"
    /\ \E nv \in {InfoRefresh(wk.album, wk.obj, now)} :
          /\ amem' = [amem EXCEPT ![wk.album] = {nv}]
          /\ astored' = [astored EXCEPT ![wk.album] = {nv}]
          /\ aghost' = [aghost EXCEPT ![wk.album] =
                           [t |-> now, valid |-> TRUE, out |-> {nv}, dirty |-> FALSE]]
          /\ aresp' = [op |-> "get", album |-> wk.album, out |-> nv,
                       cached |-> FALSE, read |-> TRUE, at |-> now,
                       ttlMs |-> InfoTtlMs(NaN, aenv),
                       parseErrorTtlMs |-> InfoParseErrorTtlMs(aenv),
                       prev |-> aghost[wk.album],
                       cold |-> amem[wk.album] = {}, durable |-> astored[wk.album]]
    /\ wk' = NoRequest
    /\ UNCHANGED <<now, counterVars, tok, idx, ns, inflight, gateVars, bucket, aenv>>

\* a writer puts info.json and its invalidate() is answered
PutThenInvalidate ==
    \E a \in Albums, info \in InfoInputs :
        /\ aenv.hasInfoDO
        /\ bucket[a] # OkObject(info)
        /\ PutInfoJson(a, info, TRUE, [op |-> "admin", album |-> a, status |-> 200])

\* check / adjust / reset whose storage.put('v', v) is rejected: the handler
\* has already changed the object load() returned, which is this.mem
CounterPutFails ==
    \E op \in {"check", "adjust", "reset"}, windowMs \in WindowInputs :
        /\ ~CheckInvalid(1, windowMs)
        /\ LET v  == Load(mem, stored)
               v2 == CASE op = "check"  -> CheckValue(v, now, windowMs)
                      []  op = "adjust" -> AdjustValue(v, now, 1, windowMs)
                      []  op = "reset"  -> ResetValue(now, windowMs)
           IN /\ v.count < MaxCount
              /\ mem' = {v2}
              /\ cresp' = [NoResp EXCEPT !.op = op, !.status = 500,
                                         !.at = now, !.before = stored]
        /\ cghost' = Tainted
        /\ UNCHANGED <<now, stored, otherVars>>

\* a get() that misses and whose save(v) fails at storage.put('v', v),
\* after this.mem = v
InfoSaveFails ==
    \E a \in Albums :
        /\ aenv.hasInfoDO
        /\ LET g == InfoGet(a, amem[a], astored[a], bucket[a], now, NaN, aenv)
           IN /\ g.read
              /\ amem' = [amem EXCEPT ![a] = g.mem]
              /\ aresp' = [op |-> "get", album |-> a, out |-> g.out,
                           cached |-> FALSE, read |-> TRUE, at |-> now,
                           failed |-> TRUE,
                           cold |-> amem[a] = {}, durable |-> astored[a]]
        /\ UNCHANGED <<now, counterVars, tok, idx, ns, wk, inflight, gateVars,
                       bucket, astored, aghost, aenv>>

----------------------------------------------------------------------------
(* Concurrent listing requests of one client at the soft gate: each sends  *)
(* no token and no cookie; call c is "new" before its peek, "peeked" while *)
(* it waits to adjust, "done" when the gate has let it by or refused it.   *)

\* peekTurnstileSoftCount and the test of the threshold
RequestPeeks ==
    \E c \in Calls, ip \in ClientIps :
    \E count \in {PeekTurnstileSoftCount(genv, soft[ip], now, TRUE)} :
        /\ inflight.call[c].pc = "new"
        /\ inflight' = [inflight EXCEPT
                           !.call[c].pc = IF Enforced(count, SoftThreshold(genv))
                                          THEN "done" ELSE "peeked",
                           !.call[c].count = count,
                           !.call[c].allowed = ~Enforced(count, SoftThreshold(genv))]
        /\ UNCHANGED <<now, counterVars, albumVars, tok, idx, ns, wk, gateVars>>

\* adjustTurnstileSoftCounter(env, clientIp, +1, windowMs) of a request let by
RequestAdjusts ==
    \E c \in Calls, ip \in ClientIps :
        /\ inflight.call[c].pc = "peeked"
        /\ soft' = [soft EXCEPT ![ip] =
                       AdjustTurnstileSoftCounter(genv, @, now, 1,
                                                  SoftWindowMs(genv), TRUE)]
        /\ inflight' = [inflight EXCEPT !.call[c].pc = "done"]
        /\ UNCHANGED <<now, counterVars, albumVars, tok, idx, ns, wk, genv, jar, bg, gghost>>

----------------------------------------------------------------------------
(* handleAdminRequest: the session exchange and authorizeAdmin *)

\* (an authorizeAdmin that takes a token whatever its expiry)
AuthorizeAdminAnyAge(adminToken, auth, t) ==
    /\ adminToken # ""
    /\ auth.scheme = "Bearer" /\ auth.token # <<>>
    /\ Len(auth.token) = 2 /\ HmacB64(adminToken, auth.token[1]) = auth.token[2]

\* authorizeAdmin: TRUE when it returns null
AuthorizeAdmin(adminToken, auth, t) ==
    /\ adminToken # ""
    /\ auth.scheme = "Bearer" /\ auth.token # <<>>
    /\ VerifyAdminSessionToken(auth.token, adminToken, t)

\* POST /api/admin/session
AdminSession ==
    \E adminToken \in {"", "key1"}, tsKey \in {"", "ts"}, badJson \in BOOLEAN :
    \E provided \in (IF badJson \/ adminToken = "" THEN {""} ELSE {""} \cup Keys),
       hasTsToken \in (IF badJson \/ adminToken = "" \/ tsKey = "" THEN {FALSE}
                       ELSE BOOLEAN) :
    \E verdict \in (IF hasTsToken THEN Verdicts ELSE {"none"}) :
    \E r \in {[op |-> "adminapi", session |-> TRUE, adminToken |-> adminToken,
               tsKey |-> tsKey, badJson |-> badJson, provided |-> provided,
               hasTsToken |-> hasTsToken, verdict |-> verdict, at |-> now,
               status |-> 0, executed |-> FALSE, issued |-> {}]} :
        /\ UNCHANGED <<now, counterVars, bucket, amem, astored, aenv, aghost, idx, ns, wk, inflight, gateVars>>
        /\ IF badJson
           THEN aresp' = [r EXCEPT !.status = 400] /\ tok' = tok
           ELSE IF adminToken = ""
           THEN aresp' = [r EXCEPT !.status = 401] /\ tok' = tok
           ELSE IF tsKey # "" /\ (~hasTsToken \/ ~VerifySucceeds(verdict))
           THEN aresp' = [r EXCEPT !.status = 403] /\ tok' = tok
           ELSE IF provided = "" \/ provided # adminToken
           THEN aresp' = [r EXCEPT !.status = 401] /\ tok' = tok
           ELSE \E t \in {IssueAdminSessionToken(adminToken, now)} :
                  /\ aresp' = [r EXCEPT !.status = 200, !.issued = {t}]
                  /\ tok' = [st |-> "issued", kind |-> "admin", key |-> adminToken,
                             ip |-> "", iat |-> now, issued |-> t, presented |-> t]

\* any other request under /api/admin/. The Authorization header: absent,
\* another scheme, Bearer with the raw ADMIN_TOKEN, Bearer with the token at hand
AdminOperation ==
    \E adminToken \in {"", "key1"} :
    \E auth \in { [scheme |-> "none",   token |-> <<>>],
                  [scheme |-> "Basic",  token |-> <<[raw |-> adminToken]>>],
                  [scheme |-> "Bearer", token |-> <<[raw |-> adminToken]>>] }
                \cup (IF tok.st = "none" THEN {}
                      ELSE {[scheme |-> "Bearer", token |-> tok.presented]}) :
        /\ aresp' = [op |-> "adminapi", session |-> FALSE, adminToken |-> adminToken,
                     auth |-> auth, at |-> now,
                     executed |-> AuthorizeAdmin(adminToken, auth, now),
                     status |-> IF AuthorizeAdmin(adminToken, auth, now)
                                THEN 200 ELSE 401]
        /\ UNCHANGED <<now, counterVars, bucket, amem, astored, aenv, aghost, tok, idx, ns, wk, inflight, gateVars>>

----------------------------------------------------------------------------
(* Actors by name: env.RATE_LIMITER.idFromName(key), env.ALBUM_INFO.idFromName(key) *)

\* (a soft counter kept under the name of the album_api bucket)
SoftKeyShared(ip) == "album_api:" \o ip

\* `${cfg.bucket}:${ip}`, `turnstile_soft:${ip}`, `album:${albumId}`
RateKey(bkt, ip) == bkt \o ":" \o ip
SoftKey(ip) == "turnstile_soft:" \o ip
InfoKey(albumId) == "album:" \o albumId

\* two clients, one of them with an IPv6 address, and two albums: one
\* whose info.json does not parse, one without info.json
KeyIps == {"10.0.0.1", "::1"}
KeyAlbums == {"a1", "a2"}

\* no actor has been called
NoKeys ==
    [limiter |-> [k \in {RateKey("album_api", ip) : ip \in KeyIps}
                        \cup {SoftKey(ip) : ip \in KeyIps} |-> ZeroCounter],
     info |-> [k \in {InfoKey(a) : a \in KeyAlbums} |-> [mem |-> {}, stored |-> {}]],
     last |-> [op |-> "none"]]

\* enforceRateLimit of a request under /api/album/ from client ip
KeyedCheck ==
    \E ip \in KeyIps :
    \E k \in {RateKey("album_api", ip)} :
        /\ ns.limiter[k].count <= SoftT
        /\ ns' = [ns EXCEPT
                    !.limiter[k] = CheckValue(@, now, AlbumApiWindowMs),
                    !.last = [op |-> "check", ip |-> ip]]
        /\ UNCHANGED <<now, counterVars, albumVars, tok, idx, wk, inflight, gateVars>>

\* adjustTurnstileSoftCounter for client ip
KeyedSoftAdjust ==
    \E ip \in KeyIps, delta \in {-1, 1} :
    \E k \in {SoftKey(ip)} :
        /\ ns.limiter[k].count <= SoftT
        /\ ns' = [ns EXCEPT
                    !.limiter[k] = AdjustValue(@, now, delta, SoftWindowDefaultMs),
                    !.last = [op |-> "soft", ip |-> ip]]
        /\ UNCHANGED <<now, counterVars, albumVars, tok, idx, wk, inflight, gateVars>>

\* getAlbumInfoWithSecrets through AlbumInfoDO, for album a
KeyedInfoGet ==
    \E a \in KeyAlbums :
    \E k \in {InfoKey(a)} :
    \E g \in {InfoGet(a, ns.info[k].mem, ns.info[k].stored,
                      IF a = "a1" THEN BadObject ELSE NoObject, now, NaN,
                      [hasInfoDO |-> TRUE, ALBUM_INFO_TTL_MS |-> NaN,
                       ALBUM_INFO_PARSE_ERROR_TTL_MS |-> NaN])} :
        /\ ns' = [ns EXCEPT !.info[k] = [mem |-> g.mem, stored |-> g.stored],
                            !.last = [op |-> "get", album |-> a]]
        /\ UNCHANGED <<now, counterVars, albumVars, tok, idx, wk, inflight, gateVars>>

\* invalidateAlbumCache for album a
KeyedInfoInvalidate ==
    \E a \in KeyAlbums :
        /\ ns' = [ns EXCEPT !.info[InfoKey(a)] = [mem |-> {}, stored |-> {}],
                            !.last = [op |-> "invalidate", album |-> a]]
        /\ UNCHANGED <<now, counterVars, albumVars, tok, idx, wk, inflight, gateVars>>

----------------------------------------------------------------------------
(* AlbumIndexDO: the file index of one album *)

\* String.prototype.localeCompare on the names of the model: letters compare
\* by their base letter first, and a lower-case letter sorts before its capital
localeCompare(a, b) ==
    LET Collation == <<"", "a.jpg", "b.jpg", "B.jpg">>
        Rank(n) == CHOOSE i \in 1..Len(Collation) : Collation[i] = n
    IN Rank(a) - Rank(b)

\* BUCKET.list over all its pages: the keys under a prefix, in the order of
\* their bytes (a capital letter sorts before every lower-case letter)
listAllKeys(S) ==
    LET ByteOrder == <<"", "B.jpg", "a.jpg", "b.jpg">>
        Listed(k) == k \in S
    IN SelectSeq(ByteOrder, Listed)

\* Array.prototype.sort with the comparator cmp(a, b) = a.localeCompare(b)
RECURSIVE SortNames(_)
SortNames(q) ==
    IF q = <<>> THEN <<>>
    ELSE LET Before(k) == localeCompare(k, Head(q)) < 0
             NotBefore(k) == localeCompare(k, Head(q)) >= 0
         IN SortNames(SelectSeq(Tail(q), Before)) \o <<Head(q)>>
                \o SortNames(SelectSeq(Tail(q), NotBefore))

\* (a refresh that keeps the order of the listing)
IndexRefreshListingOrder(photos, preview, t) ==
    LET NotPrefix(k) == k # ""
        photoNames == SelectSeq(listAllKeys(photos), NotPrefix)
    IN [files |-> [i \in 1..Len(photoNames) |->
                      [name |-> photoNames[i],
                       hasPreview |-> photoNames[i] \in preview]],
        fetchedAtMs |-> t]

\* refresh(): both listings, cross-referenced; the entry that is kept
IndexRefresh(photos, preview, t) ==
    LET NotPrefix(k) == k # ""
        photoNames == SortNames(SelectSeq(listAllKeys(photos), NotPrefix))
        previewKeys == SelectSeq(listAllKeys(preview), NotPrefix)
        previewSet == {previewKeys[i] : i \in 1..Len(previewKeys)}
    IN [files |-> [i \in 1..Len(photoNames) |->
                      [name |-> photoNames[i],
                       hasPreview |-> photoNames[i] \in previewSet]],
        fetchedAtMs |-> t]

\* no object in the album, nothing cached, no call made
NoIndex == [photos |-> {}, preview |-> {}, mem |-> {}, stored |-> {},
            resp |-> [op |-> "none"]]

\* an object is put or deleted under albums/<id>/photos/ or under
\* albums/<id>/preview/; "" is the object whose key is the prefix itself
IndexBucketWrite ==
    /\ \/ \E n \in {"", "B.jpg", "a.jpg"} :
             idx' = [idx EXCEPT !.photos = IF n \in @ THEN @ \ {n} ELSE @ \cup {n}]
       \/ \E n \in {"", "a.jpg", "b.jpg"} :
             idx' = [idx EXCEPT !.preview = IF n \in @ THEN @ \ {n} ELSE @ \cup {n}]
    /\ UNCHANGED <<now, counterVars, albumVars, tok, ns, wk, inflight, gateVars>>

\* fetch, action "get"
IndexDOGet ==
    /\ \E bodyTtl \in {NaN, TickMs}, envTtl \in {NaN, 2 * TickMs} :
          LET ttlMs == OrNum(bodyTtl, OrNum(envTtl, 60000))
              v == IF idx.mem # {} THEN idx.mem ELSE idx.stored
          IN IF v # {} /\ (now - TheOne(v).fetchedAtMs) < ttlMs
             THEN idx' = [idx EXCEPT
                     !.mem = v,
                     !.resp = [op |-> "get", cached |-> TRUE,
                               files |-> TheOne(v).files,
                               fetchedAtMs |-> TheOne(v).fetchedAtMs,
                               at |-> now, photos |-> {}, preview |-> {}]]
             ELSE \E next \in {IndexRefresh(idx.photos, idx.preview, now)} :
                     idx' = [idx EXCEPT
                        !.mem = {next},
                        !.stored = {next},
                        !.resp = [op |-> "get", cached |-> FALSE,
                                  files |-> next.files,
                                  fetchedAtMs |-> next.fetchedAtMs,
                                  at |-> now, photos |-> idx.photos,
                                  preview |-> idx.preview]]
    /\ UNCHANGED <<now, counterVars, albumVars, tok, ns, wk, inflight, gateVars>>

\* fetch, action "invalidate"
IndexDOInvalidate ==
    /\ idx' = [idx EXCEPT !.mem = {}, !.stored = {}, !.resp = [op |-> "invalidate"]]
    /\ UNCHANGED <<now, counterVars, albumVars, tok, ns, wk, inflight, gateVars>>

\* the actor is evicted: the memo is lost, durable storage stays
IndexRestart ==
    /\ idx.mem # {}
    /\ idx' = [idx EXCEPT !.mem = {}]
    /\ UNCHANGED <<now, counterVars, albumVars, tok, ns, wk, inflight, gateVars>>


CounterInit ==
    /\ now = TickMs
    /\ mem = {}
    /\ stored = {}
    /\ cresp = NoResp
    /\ cghost = NoGhost

Init ==
    /\ CounterInit
    /\ AlbumIdle
    /\ aenv = NoAlbumEnv
    /\ tok = [st |-> "none"]
    /\ idx = NoIndex
    /\ ns = NoKeys
    /\ wk = NoRequest
    /\ inflight = NoCalls
    /\ genv = NoGateEnv
    /\ GateIdle

\* the album service with the gate switched off
AlbumInit ==
    /\ CounterInit
    /\ AlbumIdle
    /\ aenv \in AlbumEnvs
    /\ tok = [st |-> "none"]
    /\ idx = NoIndex
    /\ ns = NoKeys
    /\ wk = NoRequest
    /\ inflight = NoCalls
    /\ genv = NoGateEnv
    /\ GateIdle

\* the gated listing of one album whose settings do not change
GateInit ==
    /\ CounterInit
    /\ bucket = [a \in Albums |-> OkObject(TheOne({i \in InfoInputs : i.secret = "k2"}))]
    /\ amem = [a \in Albums |-> {}]
    /\ astored = [a \in Albums |-> {}]
    /\ aresp = [op |-> "none"]
    /\ aghost = [a \in Albums |-> NoFetch]
    /\ aenv = NoAlbumEnv
    /\ tok = [st |-> "none"]
    /\ idx = NoIndex
    /\ ns = NoKeys
    /\ wk = NoRequest
    /\ inflight = NoCalls
    /\ genv \in GateEnvs
    /\ GateIdle

\* the Worker in front of one album that is there or is not; the client's
\* album_api counter is one request short of the limit in a window that has
\* just begun
WorkerInit ==
    /\ now = TickMs
    /\ mem = {}
    /\ stored = {[count |-> AlbumApiLimit - 1,
                   resetAtMs |-> TickMs + AlbumApiWindowMs]}
    /\ cresp = NoResp
    /\ cghost = NoGhost
    /\ bucket \in { [a \in Albums |-> NoObject],
                    [a \in Albums |->
                        OkObject(TheOne({i \in InfoInputs : i.secret = "k2"}))] }
    /\ amem = [a \in Albums |-> {}]
    /\ astored = [a \in Albums |-> {}]
    /\ aresp = [op |-> "none"]
    /\ aghost = [a \in Albums |-> NoFetch]
    /\ \E e \in WorkerEnvs : genv = e.g /\ aenv = e.a
    /\ tok = [st |-> "none"]
    /\ idx = NoIndex
    /\ ns = NoKeys
    /\ wk = NoRequest
    /\ inflight = NoCalls
    /\ GateIdle

\* the calls of one run: one limit, a counter that is fresh or holds a
\* window that has run out
ConcInit ==
    /\ now = TickMs
    /\ mem = {}
    /\ stored \in { {}, {[count |-> MaxCount, resetAtMs |-> TickMs]} }
    /\ cresp = NoResp
    /\ cghost = NoGhost
    /\ AlbumIdle
    /\ aenv = NoAlbumEnv
    /\ tok = [st |-> "none"]
    /\ idx = NoIndex
    /\ ns = NoKeys
    /\ wk = NoRequest
    /\ \E l \in ConcLimits : inflight = [NoCalls EXCEPT !.limit = l]
    /\ genv = NoGateEnv
    /\ GateIdle

Next == Tick \/ Restart \/ DoCheck \/ DoPeek \/ DoAdjust \/ DoReset

\* a long time passes: just short of the lifetime of an admin session
LongSleep ==
    /\ now < AdminSessionTtlMs
    /\ now' = now + (AdminSessionTtlMs - TickMs)
    /\ UNCHANGED <<counterVars, albumVars, tok, idx, ns, wk, inflight, gateVars>>

TokenNext ==
    \/ Tick
    \/ LongSleep
    \/ (TokIssue /\ UNCHANGED <<now, counterVars, albumVars, gateVars, wk, inflight, idx, ns>>)
    \/ (TokAlter /\ UNCHANGED <<now, counterVars, albumVars, gateVars, wk, inflight, idx, ns>>)
    \/ (TokSignOdd /\ UNCHANGED <<now, counterVars, albumVars, gateVars, wk, inflight, idx, ns>>)
    \/ (TokVerify /\ UNCHANGED <<now, counterVars, albumVars, gateVars, wk, inflight, idx, ns>>)

\* the admin API, and what holders and non-holders of a key make of tokens
AdminApiNext ==
    \/ Tick
    \/ LongSleep
    \/ AdminSession
    \/ AdminOperation
    \/ (TokAlter /\ UNCHANGED <<now, counterVars, albumVars, gateVars, wk, inflight, idx, ns>>)
    \/ (TokSignOdd /\ UNCHANGED <<now, counterVars, albumVars, gateVars, wk, inflight, idx, ns>>)

\* AlbumInfoDO as a cache: gets, uploads, evictions and invalidations
CacheNext ==
    \/ Tick
    \/ CacheRestart
    \/ ExternalPut
    \/ AdminDelete
    \/ InfoDOGet

\* the album service: administration, listings and images
AlbumNext ==
    \/ Tick
    \/ CacheRestart
    \/ ExternalPut
    \/ AdminCreate
    \/ AdminUpdate
    \/ AdminDelete
    \/ ImageRequest
    \/ AlbumRequest

\* the handlers that decide on an album's secrets, and the writes of info.json
SecretsNext ==
    \/ Tick
    \/ CacheRestart
    \/ ExternalPut
    \/ ExternalPutLegacy
    \/ ImageRequest
    \/ AlbumRequest

GateNext ==
    \/ Tick
    \/ AlbumRequest
    \/ BackgroundVerify

ConcNext ==
    \/ Tick
    \/ CallArrives
    \/ CallBody
    \/ CallLoaded
    \/ CallEvict

\* the Worker handling one listing request after the other
WorkerNext ==
    \/ Tick
    \/ WorkerFetch
    \/ RateLimitAnswer
    \/ Route
    \/ LoadDirect
    \/ InfoAnswer

\* AlbumIndexDO and the album's objects
IndexNext ==
    \/ Tick
    \/ IndexBucketWrite
    \/ IndexDOGet
    \/ IndexDOInvalidate
    \/ IndexRestart

SpecIndex == Init /\ [][IndexNext]_vars

\* calls to the actors of several clients and albums
KeysNext ==
    \/ KeyedCheck
    \/ KeyedSoftAdjust
    \/ KeyedInfoGet
    \/ KeyedInfoInvalidate

SpecKeys == Init /\ [][KeysNext]_vars

\* token-less requests of one client racing through peek and adjust
SoftRaceNext ==
    \/ RequestPeeks
    \/ RequestAdjusts

SpecSoftRace == GateInit /\ [][SoftRaceNext]_vars

\* gets of AlbumInfoDO, whole or caught between read and save, and writers
RefreshRaceNext ==
    \/ Tick
    \/ InfoDOGet
    \/ RefreshReads
    \/ RefreshSaves
    \/ PutThenInvalidate

SpecRefreshRace == AlbumInit /\ [][RefreshRaceNext]_vars

\* both actors with durable writes that can fail
WriteFailNext ==
    \/ Restart
    \/ DoPeek
    \/ CounterPutFails
    \/ CacheRestart
    \/ InfoDOGet
    \/ InfoSaveFails

SpecWriteFail == AlbumInit /\ [][WriteFailNext]_vars

Spec == Init /\ [][Next]_vars

SpecWorker == WorkerInit /\ [][WorkerNext]_vars

SpecConc == ConcInit /\ [][ConcNext]_vars

\* the handler's own steps are taken, and so are the ends of the calls that
\* run under a timer (peek, adjust, verification: all within Route); the
\* calls to the rate-limiter actor and to AlbumInfoDO end only if the actor
\* lets them
SpecWorkerLive == SpecWorker /\ WF_vars(Route) /\ WF_vars(LoadDirect)

SpecCache == AlbumInit /\ [][CacheNext]_vars

SpecAlbum == AlbumInit /\ [][AlbumNext]_vars

SpecSecrets == AlbumInit /\ [][SecretsNext]_vars

SpecGate == GateInit /\ [][GateNext]_vars

\* the listing of one album under every configuration of the gate: on with
\* the cookie, on without it, and off for want of TURNSTILE_SECRET_KEY
GateAnyInit ==
    /\ CounterInit
    /\ bucket = [a \in Albums |-> OkObject(TheOne({i \in InfoInputs : i.secret = "k2"}))]
    /\ amem = [a \in Albums |-> {}]
    /\ astored = [a \in Albums |-> {}]
    /\ aresp = [op |-> "none"]
    /\ aghost = [a \in Albums |-> NoFetch]
    /\ aenv = NoAlbumEnv
    /\ tok = [st |-> "none"]
    /\ idx = NoIndex
    /\ ns = NoKeys
    /\ wk = NoRequest
    /\ inflight = NoCalls
    /\ genv \in GateEnvs \cup {NoGateEnv}
    /\ GateIdle

SpecGateAny == GateAnyInit /\ [][GateNext]_vars

SpecToken == Init /\ [][TokenNext]_vars

SpecAdmin == Init /\ [][AdminApiNext]_vars

\* the gated listing with the cookie on in a runtime with ctx.waitUntil
GateLiveInit ==
    /\ GateInit
    /\ genv.hasWaitUntil
    /\ CookieEnabled(genv)

\* ctx.waitUntil keeps the Worker alive until a queued task has settled
SpecGateLive == GateLiveInit /\ [][GateNext]_vars /\ WF_vars(BackgroundVerify)

----------------------------------------------------------------------------
(* Properties of the signed tokens *)

\* expiresAt of a token as issued
ExpOf(t) == t[1].obj.exp.num

(* C7: token round trip, admin-session and human-bypass. A presented token *)
(* verifies exactly when it is the token as issued (payload part and       *)
(* signature part unchanged), the verification key is the issuing key, the *)
(* time is before expiresAt, and, for a human-bypass token, the client IP  *)
(* is the one it was issued to.                                            *)
C7_TokenRoundTrip ==
    tok.st = "verified" =>
        (tok.ok <=> /\ tok.presented = tok.issued
                    /\ tok.vkey = tok.key
                    /\ tok.at < ExpOf(tok.issued)
                    /\ (tok.kind = "human" => tok.vip = tok.ip))

\* an admin token, untouched and under its key, refused at expiresAt
C7_Witness ==
    /\ tok.st = "verified" /\ tok.kind = "admin"
    /\ tok.presented = tok.issued /\ tok.vkey = tok.key
    /\ tok.at > tok.iat
    /\ tok.at = ExpOf(tok.issued)
    /\ ~tok.ok

----------------------------------------------------------------------------
(* Properties of AlbumInfoDO *)

\* the TTL in force for the entry of the last fetch, at a get() response
PrevTtl(r) ==
    InfoEffectiveTtlMs(TheOne(r.prev.out), r.ttlMs, r.parseErrorTtlMs)

(* C5 as stated: after a get() that fetched at t, a get() at u with no      *)
(* invalidate() in between is answered from the cache, with the same       *)
(* payload and no read of the bucket, exactly when u - t < ttlMs; after an *)
(* invalidate() the next get() is a miss.                                  *)
C5_Original ==
    aresp.op = "get" =>
        IF aresp.prev.valid /\ aresp.at - aresp.prev.t < aresp.ttlMs
        THEN aresp.cached /\ ~aresp.read /\ {aresp.out} = aresp.prev.out
        ELSE ~aresp.cached /\ aresp.read /\ aresp.out.fetchedAtMs = aresp.at

(* C5: after a get() that fetched at t, a get() at u with no invalidate()   *)
(* in between is answered from the cache, with the same payload and no     *)
(* read of the bucket, exactly when u - t is less than the TTL of the      *)
(* entry fetched: ttlMs, or parseErrorTtlMs when the fetch found settings  *)
(* that do not parse. Otherwise, and always after an invalidate(), the     *)
(* get() reads the bucket and returns cached = false.                      *)
C5_CacheTtl ==
    aresp.op = "get" =>
        IF aresp.prev.valid /\ aresp.at - aresp.prev.t < PrevTtl(aresp)
        THEN aresp.cached /\ ~aresp.read /\ {aresp.out} = aresp.prev.out
        ELSE ~aresp.cached /\ aresp.read /\ aresp.out.fetchedAtMs = aresp.at

\* a get() exactly ttlMs after the fetch of an entry that parsed: a miss
C5_Witness ==
    /\ aresp.op = "get"
    /\ aresp.prev.valid
    /\ TheOne(aresp.prev.out).ok
    /\ aresp.at - aresp.prev.t = aresp.ttlMs
    /\ ~aresp.cached /\ aresp.read

(* C6 as stated: a not-found entry has a TTL of its own, independent of    *)
(* the TTL of normal entries: whether the next get() serves a stored       *)
(* not-found entry does not depend on the ttlMs in force.                  *)
C6_NotFoundOwnTtl ==
    \A a \in Albums :
        (astored[a] # {} /\ TheOne(astored[a]).status = 404) =>
            \A t1, t2 \in TtlBodyInputs :
                InfoFresh(TheOne(astored[a]), a, now, InfoTtlMs(t1, aenv),
                          InfoParseErrorTtlMs(aenv))
                = InfoFresh(TheOne(astored[a]), a, now, InfoTtlMs(t2, aenv),
                            InfoParseErrorTtlMs(aenv))

----------------------------------------------------------------------------
(* Properties of the album handlers *)

\* the secret strings of the model
SecretStrings == {"k1", "k2", "k3"}

\* the handler read settings that are those of the bucket: straight from
\* it, or through a cache no write has bypassed since its last fetch
Coherent(r) == ~r.viaDO \/ ~r.dirty

ImageAccepted(r) == r.blobRead /\ r.status \in {200, 404}

(* C8: with the cache coherent, a request for an image with a valid album  *)
(* id, kind and file name is accepted exactly when its signature is the    *)
(* digest of albumId:name:secret for a secret configured now; otherwise it *)
(* is answered 403. So once an admin update has removed a secret and       *)
(* invalidated the cache, signatures made with it are refused.             *)
C8_ImageSignature ==
    (aresp.op = "image" /\ aresp.loaded /\ Coherent(aresp)) =>
        /\ ImageAccepted(aresp) <=>
              \E k \in aresp.cur :
                  aresp.sig = ImageSig(aresp.album, aresp.name, k)
        /\ ~ImageAccepted(aresp) => aresp.status = 403

\* through the cache, after secrets were replaced by k2 alone: a signature
\* made with k1 is refused
C8_Witness ==
    /\ aresp.op = "image" /\ aresp.loaded /\ aresp.viaDO /\ ~aresp.dirty
    /\ aresp.cur = {"k2"}
    /\ aresp.sig = ImageSig(aresp.album, aresp.name, "k1")
    /\ aresp.status = 403

\* the valid names of a file list, in its order
ValidNames(files) ==
    LET F[i \in 0..Len(files)] ==
            IF i = 0 THEN <<>>
            ELSE IF IsValidPhotoFileName(files[i])
                 THEN Append(F[i - 1], Trim(files[i]))
                 ELSE F[i - 1]
    IN F[Len(files)]

(* C9: a listing answered 200, with the cache coherent, was asked with a   *)
(* configured secret S and has one entry per valid name of the album's     *)
(* file list, in order; the photo and preview URL of an entry carry the    *)
(* digest of (albumId, name, S), which the image handler accepts and which *)
(* is not the digest under any other secret.                               *)
C9_Listing ==
    (aresp.op = "album" /\ aresp.status = 200 /\ Coherent(aresp)) =>
        LET a == aresp.album
            names == ValidNames(bucket[a].info.files)
        IN /\ aresp.secret \in Configured(a)
           /\ Len(aresp.files) = Len(names)
           /\ \A i \in DOMAIN aresp.files :
                LET f == aresp.files[i]
                IN /\ f.name = names[i]
                   /\ f.photoUrl.s = ImageSig(a, f.name, aresp.secret)
                   /\ f.previewUrl.s = f.photoUrl.s
                   /\ f.photoUrl.album = a /\ f.photoUrl.name = f.name
                   /\ f.previewUrl.album = a /\ f.previewUrl.name = f.name
                   /\ f.photoUrl.kind = "photos" /\ f.previewUrl.kind = "preview"
                   /\ SigMatches(a, f.name, f.photoUrl.s, Configured(a))
                   /\ \A k \in SecretStrings \ {aresp.secret} :
                        ImageSig(a, f.name, k) # f.photoUrl.s

\* a listing of two names out of a file list of three, with two secrets
\* configured
C9_Witness ==
    /\ aresp.op = "album" /\ aresp.status = 200 /\ Coherent(aresp)
    /\ Len(aresp.files) = 2
    /\ Len(bucket[aresp.album].info.files) = 3
    /\ Cardinality(Configured(aresp.album)) = 2

(* C20: the secret check of a listing request that got past the rate      *)
(* limit and the gate, with the cache coherent: 404 when the album has no  *)
(* settings object (500 when the object does not parse); 403 when the      *)
(* album is there and the secret sent is empty or not one of its secrets;  *)
(* success only for one of its secrets, and the matched secret is then     *)
(* the secret sent.                                                        *)
C20_SecretCheck ==
    (aresp.op = "album" /\ aresp.path # "none" /\ aresp.secretChecked
     /\ Coherent(aresp)) =>
        LET a == aresp.album
            member == aresp.secret # "" /\ aresp.secret \in Configured(a)
        IN /\ bucket[a].st = "absent" => aresp.status = 404
           /\ bucket[a].st = "bad" => aresp.status = 500
           /\ (bucket[a].st = "ok" /\ ~member) => aresp.status = 403
           /\ aresp.matched # {} <=> (bucket[a].st = "ok" /\ member)
           /\ aresp.matched # {} => aresp.matched = {aresp.secret}
           /\ aresp.status = 200 => aresp.matched # {}

\* an album with two secrets asked with the empty secret
C20_Witness ==
    /\ aresp.op = "album" /\ aresp.path # "none" /\ aresp.secretChecked
    /\ Coherent(aresp)
    /\ bucket[aresp.album].st = "ok"
    /\ Cardinality(Configured(aresp.album)) = 2
    /\ aresp.secret = ""
    /\ aresp.status = 403

----------------------------------------------------------------------------
(* Properties of the soft gate *)

\* the request showed a bypass cookie that verifies
ValidCookie(r) ==
    /\ CookieEnabled(genv)
    /\ r.cookie # {}
    /\ VerifyHumanBypassToken(TheOne(r.cookie), genv.TURNSTILE_SECRET_KEY,
                              r.ip, r.at)

Gated(r) == r.op = "album" /\ r.path \notin {"none", "off"}

(* C2: for a client whose counter only token-less requests without a valid *)
(* cookie have touched, each answered by the actor: while fewer than T     *)
(* such requests fall in the window, one more passes the gate and the soft *)
(* counter is then their number; with T of them in the window, a request   *)
(* passes the gate only with a token the service confirms, and is answered *)
(* 403 otherwise.                                                          *)
C2_SoftGate ==
    (Gated(aresp) /\ aresp.clean /\ ~ValidCookie(aresp)) =>
        IF aresp.nRef < SoftThreshold(genv)
        THEN /\ ~aresp.hasToken
             /\ aresp.secretChecked
             /\ soft[aresp.ip].count = aresp.nRef + 1
        ELSE /\ aresp.secretChecked <=>
                    (aresp.hasToken /\ aresp.verdict = "success")
             /\ ~aresp.secretChecked => aresp.status = 403
             /\ soft[aresp.ip].count = aresp.nRef

\* request T+1 of a window, without a token: 403
C2_Witness ==
    /\ Gated(aresp) /\ aresp.clean /\ ~ValidCookie(aresp)
    /\ aresp.nRef = SoftThreshold(genv)
    /\ ~aresp.hasToken
    /\ aresp.status = 403 /\ ~aresp.secretChecked

\* the counter peeked was at or over the threshold, without a valid cookie
EnforcedCase(r) ==
    /\ Gated(r) /\ r.peeked
    /\ r.count >= SoftThreshold(genv)
    /\ ~ValidCookie(r)

\* what the enforced branch does before the secret check
EnforcedGate(r) ==
    /\ r.secretChecked <=> (r.hasToken /\ r.verdict = "success")
    /\ ~r.hasToken => r.status = 403 /\ ~r.verified
    /\ (r.hasToken /\ r.verdict # "success") => r.status = 403 /\ r.verified
    /\ ~r.adjusted /\ ~r.queued

Bypassed(r) ==
    /\ ~r.peeked /\ ~r.adjusted /\ ~r.verified /\ ~r.queued
    /\ r.secretChecked

----------------------------------------------------------------------------
(* Properties of RateLimiterDO *)

(* C1: check() is a fixed window. As long as only check() has mutated the  *)
(* key, the n-th valid check() of a window is allowed exactly when n is at *)
(* most its limit, and the window it reports is the one started by the     *)
(* first check() made with no active window or at/after the previous       *)
(* window's end (a check at resetAtMs or later starts a new window and is  *)
(* call 1 of it, allowed again).                                           *)
C1_FixedWindow ==
    (cresp.op = "check" /\ cresp.status = 200 /\ cghost.pure) =>
        /\ cresp.allowed = (cghost.n <= cresp.limit)
        /\ cresp.resetAtMs = cghost.end
        /\ cresp.remaining = Max(0, cresp.limit - cghost.n)

\* call L+1 of a second (or later) window is refused
C1_Witness ==
    /\ cresp.op = "check" /\ cresp.status = 200 /\ cghost.pure
    /\ cghost.wins >= 2
    /\ cghost.n = cresp.limit + 1
    /\ ~cresp.allowed

(* C10: peek() is read-only. After a peek() the durable value is the one   *)
(* that was stored before it, and the response reports count 0 and         *)
(* resetAtMs 0 exactly when the stored window had elapsed at the time of   *)
(* the peek (otherwise the stored count and window).                       *)
C10_PeekReadOnly ==
    cresp.op = "peek" =>
        LET b == IF cresp.before = {} THEN ZeroCounter ELSE TheOne(cresp.before)
        IN /\ stored = cresp.before
           /\ IF b.resetAtMs > 0 /\ cresp.at >= b.resetAtMs
              THEN cresp.count = 0 /\ cresp.resetAtMs = 0
              ELSE cresp.count = b.count /\ cresp.resetAtMs = b.resetAtMs

\* a peek() of an elapsed window with a positive count: reported as 0, the
\* old value still in storage
C10_Witness ==
    /\ cresp.op = "peek"
    /\ cresp.count = 0 /\ cresp.resetAtMs = 0
    /\ stored # {}
    /\ TheOne(stored).count > 0
    /\ TheOne(stored).resetAtMs <= cresp.at

\* the durable value before the action answered by r
Before(r) == IF r.before = {} THEN ZeroCounter ELSE TheOne(r.before)

(* C11: adjust(delta, windowMs?) with a finite delta. With the stored      *)
(* window elapsed the count becomes max(0, delta), otherwise                *)
(* max(0, count + delta); it is never negative. A window still running     *)
(* keeps its resetAtMs; with none running, one ending at now + windowMs is *)
(* started exactly when windowMs is finite and positive, else resetAtMs is *)
(* 0. The value answered is the value stored. A delta that is not finite   *)
(* is answered 400 and nothing is stored.                                  *)
C11_Adjust ==
    cresp.op = "adjust" =>
        LET b == Before(cresp)
            elapsed == b.resetAtMs > 0 /\ cresp.at >= b.resetAtMs
            active == b.resetAtMs > 0 /\ ~elapsed
            base == IF elapsed THEN 0 ELSE b.count
        IN IF cresp.delta = NaN
           THEN cresp.status = 400 /\ stored = cresp.before
           ELSE /\ cresp.status = 200
                /\ cresp.count = Max(0, base + cresp.delta)
                /\ cresp.count >= 0
                /\ cresp.resetAtMs =
                      IF active THEN b.resetAtMs
                      ELSE IF cresp.windowMs # NaN /\ cresp.windowMs > 0
                           THEN cresp.at + cresp.windowMs
                           ELSE 0
                /\ stored = {[count |-> cresp.count,
                              resetAtMs |-> cresp.resetAtMs]}

\* adjust(-1) on an elapsed window that held 2 or more: the count is 0
C11_Witness ==
    /\ cresp.op = "adjust" /\ cresp.status = 200
    /\ cresp.delta = -1
    /\ Before(cresp).count >= 2
    /\ Before(cresp).resetAtMs > 0
    /\ cresp.at >= Before(cresp).resetAtMs
    /\ cresp.count = 0

----------------------------------------------------------------------------
(* Properties of the Worker's fetch handler *)

(* C12: the global rate limit fails open. A request ends at the rate limit *)
(* only with a 429, and only when the actor answered allowed = false: a    *)
(* call that throws, cannot be reached, or returns a response that is not  *)
(* OK or not JSON lets the request go on to the route, and no outage of    *)
(* the actor reaches the client as a server error.                         *)
C12_FailOpen ==
    aresp.op = "worker" => (aresp.status = 429 /\ aresp.rl = "answer")

(* C18: every call the listing request waits on runs under a timeout, so  *)
(* every listing request is answered in the end, even when an actor or the *)
(* verification service never replies.                                     *)
C18_AlwaysAnswered == (wk.pc # "idle") ~> (wk.pc = "idle")

(* C19: nothing before the secret check tells whether the album exists.   *)
(* Take the request as handled and the same request, in the same state,    *)
(* handled with the album there instead of not there (or the reverse): the *)
(* rate limit ends both or neither, with the same status; the gate lets    *)
(* both or neither through to the secret check, answers both the same      *)
(* verification 403, and leaves the soft counter the same in both.         *)
C19_NoExistenceLeak ==
    /\ aresp.op = "worker" => aresp.twin = aresp.status
    /\ (aresp.op = "album" /\ aresp.path # "none") =>
          /\ aresp.twin.soft = aresp.softAfter
          /\ aresp.twin.pass = aresp.secretChecked
          /\ aresp.twin.path = aresp.path
          /\ ~aresp.secretChecked =>
                /\ aresp.status = 403
                /\ aresp.twin.status = aresp.status
                /\ aresp.twin.verified = aresp.verified

\* a verification 403 for an album that is not there
C19_Witness ==
    /\ aresp.op = "album" /\ aresp.path = "enforced" /\ ~aresp.secretChecked
    /\ aresp.status = 403
    /\ bucket[aresp.album] = NoObject
    /\ aresp.twin.status = 403

----------------------------------------------------------------------------
(* Properties of the gate when a call fails *)

\* the listing request just answered went through the gate's counter part
Peeked == aresp.op = "album" /\ aresp.path # "none" /\ aresp.peeked

(* C13: the soft counter fails open. When the peek of the client's counter *)
(* gets no usable answer (actor unreachable, error, or no answer within    *)
(* the timeout) the handler reads count 0 whatever the actor holds: the    *)
(* request is not enforced, no token is asked for or verified, and it goes *)
(* on to the secret check. When the adjust gets no answer the request goes *)
(* on to the secret check all the same, the counter as it was.             *)
C13_SoftFailOpen ==
    Peeked =>
        /\ ~aresp.peekUp =>
              /\ aresp.count = 0
              /\ aresp.path = "soft"
              /\ ~aresp.verified
              /\ aresp.secretChecked
        /\ (aresp.adjusted /\ ~aresp.adjustUp) =>
              /\ aresp.secretChecked
              /\ soft[aresp.ip] = aresp.before

\* no answer to the peek nor to the adjust while the actor holds a live
\* count at the threshold: the listing is served
C13_Witness ==
    /\ Peeked /\ ~aresp.peekUp /\ aresp.adjusted /\ ~aresp.adjustUp
    /\ ~aresp.hasToken
    /\ aresp.before.count >= SoftT /\ aresp.before.resetAtMs > aresp.at
    /\ aresp.status = 200

(* C14: on the enforced path the synchronous verification fails closed.    *)
(* A request that is enforced and carries a token is verified before       *)
(* anything else; when the call ends in a timeout, a transport error or    *)
(* any answer other than success = true, the response is 403, the secret   *)
(* check is not reached, and no bypass token is made or sent.              *)
C14_VerifyFailsClosed ==
    (aresp.op = "album" /\ aresp.path = "enforced" /\ aresp.hasToken) =>
        /\ aresp.verified
        /\ aresp.verdict \in Verdicts
        /\ aresp.verdict # "success" =>
              /\ aresp.status = 403
              /\ ~aresp.secretChecked
              /\ aresp.made = {}
              /\ aresp.setCookie = {}
              /\ aresp.files = <<>>

\* an enforced request whose verification timed out
C14_Witness ==
    /\ aresp.op = "album" /\ aresp.path = "enforced" /\ aresp.hasToken
    /\ aresp.verdict = "timeout"
    /\ aresp.count >= SoftT
    /\ aresp.status = 403

\* the soft counter as a call at time t finds it: an elapsed window counts 0
Effective(v, t) == IF v.resetAtMs # 0 /\ t >= v.resetAtMs THEN ZeroCounter ELSE v

\* C15, the request: not enforced, with a token, in a runtime with
\* ctx.waitUntil: the verification is queued, nothing is verified or
\* counted before the response, and the secret check runs
C15_Request ==
    (aresp.op = "album" /\ aresp.path = "soft" /\ aresp.hasToken
     /\ genv.hasWaitUntil) =>
        /\ aresp.queued /\ ~aresp.verified /\ ~aresp.adjusted
        /\ aresp.secretChecked
        /\ aresp.made = {}
        /\ soft[aresp.ip] = aresp.before

\* C15, the task: the counter is as it was after success = true; after any
\* other end of the verification the adjust, when it is answered, leaves
\* the effective count one higher; the client's cookie is not touched
C15_Task ==
    aresp.op = "background" =>
        LET b == Effective(aresp.before, aresp.at)
            v == soft[aresp.ip]
        IN /\ jar[aresp.ip] = aresp.jar
           /\ IF aresp.verdict = "success" \/ ~aresp.adjustUp
              THEN v = aresp.before
              ELSE /\ v.count = b.count + 1
                   /\ v.resetAtMs = IF b.resetAtMs # 0 THEN b.resetAtMs
                                     ELSE aresp.at + SoftWindowMs(genv)

Genuine(c, t) ==
    /\ c[2] = HmacB64(genv.TURNSTILE_SECRET_KEY, c[1])
    /\ c[1].obj.exp.num > t

(* C16: the bypass token is bound to the client's address. With the cookie *)
(* enabled, a request showing a token with a valid signature that has not  *)
(* expired is taken as verified (the bypass path) exactly when the hash in *)
(* the token is the binding hash of the address the request comes from: a  *)
(* token issued to A passes from A and is refused from every B whose hash  *)
(* differs.                                                                *)
C16_IpBinding ==
    (Gated(aresp) /\ CookieEnabled(genv)) =>
        \A c \in aresp.cookie :
            Genuine(c, aresp.at) =>
                (aresp.path = "bypass" <=> c[1].obj.i.str = IpHash(aresp.ip))

\* a token issued to another address, signed and not expired, shown by a
\* client over the threshold: the request is enforced and answered 403
C16_Witness ==
    /\ Gated(aresp) /\ CookieEnabled(genv)
    /\ \E c \in aresp.cookie :
          /\ Genuine(c, aresp.at)
          /\ c[1].obj.i.str = IpHash("ip2")
    /\ aresp.ip = "ip1"
    /\ aresp.path = "enforced" /\ aresp.status = 403

----------------------------------------------------------------------------
(* Properties of concurrent calls on one counter key *)

\* the calls that have been answered
Answered == {c \in Calls : inflight.call[c].pc = "done"}

(* C17: check() calls on one key are linearizable. However n calls of one  *)
(* window interleave (arrivals while another call reads its body or loads  *)
(* the value on a cold instance, evictions between calls), once they are   *)
(* answered the stored count is exactly n, the counts they were answered   *)
(* are 1 .. n, one each, and exactly min(n, limit) of them were allowed.   *)
C17_Linearizable ==
    LET n == Cardinality(Answered)
    IN n > 0 =>
        /\ stored # {}
        /\ \A v \in stored : v.count = n
        /\ {inflight.call[c].count : c \in Answered} = 1 .. n
        /\ Cardinality({c \in Answered : inflight.call[c].allowed})
              = IF n <= inflight.limit THEN n ELSE inflight.limit

\* all calls answered, the limit under their number, and a call that
\* loaded from storage while another call was waiting
C17_Witness ==
    /\ Answered = Calls
    /\ inflight.limit = 2
    /\ \E c \in Calls : inflight.call[c].cold
    /\ Cardinality({c \in Calls : inflight.call[c].allowed}) = 2

----------------------------------------------------------------------------
(* Properties of the admin writes *)

(* C21: when an admin operation that wrote or deleted an album's info.json *)
(* has answered 200 and AlbumInfoDO is bound, the album's cache entry is   *)
(* gone: the next get(), whatever its ttlMs, reads the bucket and returns  *)
(* cached = false with the settings now stored.                            *)
C21_InvalidateOnWrite ==
    (aresp.op = "admin" /\ aresp.status = 200 /\ aenv.hasInfoDO) =>
        LET a == aresp.album
        IN \A bodyTtl \in TtlBodyInputs :
              LET g == InfoGet(a, amem[a], astored[a], bucket[a], now, bodyTtl, aenv)
              IN /\ g.read /\ ~g.cached
                 /\ g.out = InfoRefresh(a, bucket[a], now)

----------------------------------------------------------------------------
(* Properties of the parse-error entry *)

(* C22: a get() that follows a fetch of settings that did not parse serves *)
(* the error entry (ok = false, status 500) from the cache exactly while   *)
(* its age is under the parse-error TTL, which is shorter than the TTL of  *)
(* normal and not-found entries; past it the get() reads the bucket again  *)
(* and returns what is there now, the repaired settings included.          *)
C22_ParseErrorTtl ==
    (aresp.op = "get" /\ aresp.prev.valid
     /\ TheOne(aresp.prev.out).status = 500) =>
        LET age == aresp.at - aresp.prev.t
        IN /\ aresp.parseErrorTtlMs < aresp.ttlMs
           /\ aresp.cached <=> age < aresp.parseErrorTtlMs
           /\ aresp.cached => (~aresp.read /\ {aresp.out} = aresp.prev.out)
           /\ ~aresp.cached =>
                 (aresp.read
                  /\ aresp.out = InfoRefresh(aresp.album, bucket[aresp.album],
                                             aresp.at))

----------------------------------------------------------------------------
(* Properties of the counter's validation *)

\* x is not a usable limit or window: not finite, or zero or less
NotPositive(x) == ~IsFinite(x) \/ x <= 0

\* C23, the responses: check() answers 400 exactly for a limit or windowMs
\* that is not finite and positive; adjust() answers 400 exactly for a delta
\* that is not finite, and 200 for every finite delta, 0 and negative too
C23_Responses ==
    /\ cresp.op = "check" =>
          (cresp.status = 400
              <=> (NotPositive(cresp.limitIn) \/ NotPositive(cresp.windowMs)))
    /\ cresp.op = "adjust" =>
          /\ cresp.status = 400 <=> ~IsFinite(cresp.delta)
          /\ cresp.status \in {200, 400}

\* C23, the frame: a call answered 400 leaves memo and durable value alone
C23_Frame ==
    (cresp' # cresp /\ cresp'.status = 400) => (mem' = mem /\ stored' = stored)

(* C23: check() with a limit or windowMs that is not finite and positive,  *)
(* and adjust() with a delta that is not finite, answer 400 and leave the  *)
(* memo and the durable counter as they were; nothing is coerced to a      *)
(* default. adjust() accepts every finite delta, 0 and negative included.  *)
C23_Validation == []C23_Responses /\ [][C23_Frame]_vars

\* check() with limit 0 was refused while the counter stood at 1 or more
C23_Witness ==
    /\ cresp.op = "check" /\ cresp.status = 400
    /\ cresp.limitIn = 0 /\ cresp.windowMs > 0
    /\ stored # {} /\ TheOne(stored).count >= 1
    /\ cresp.before = stored

----------------------------------------------------------------------------
(* Properties of a counter without a window *)

(* C24: when the counter's resetAtMs is 0 or has elapsed, the next check() *)
(* or adjust() computes its count from 0 (check: 1, adjust: max(0, delta)), *)
(* whatever count is stored; and peek() never reports a positive count     *)
(* together with resetAtMs = 0.                                            *)
C24_NoWindowNoCount ==
    /\ (cresp.op \in {"check", "adjust"} /\ cresp.status = 200) =>
          LET b == Before(cresp)
          IN (b.resetAtMs = 0 \/ cresp.at >= b.resetAtMs) =>
                cresp.count = IF cresp.op = "check" THEN 1
                              ELSE Max(0, 0 + cresp.delta)
    /\ cresp.op = "peek" => ~(cresp.count > 0 /\ cresp.resetAtMs = 0)

----------------------------------------------------------------------------
(* Properties of the enforced branch *)

(* C25: a request on the enforced path whose verification succeeds leaves  *)
(* the client's soft counter as it was, count and resetAtMs: nothing is    *)
(* adjusted or queued. The counter therefore still stands at or over the   *)
(* threshold in its running window, and a request of the same client that  *)
(* brings no cookie and no token is answered 403 on the enforced path.     *)
C25_CounterKept ==
    (aresp.op = "album" /\ aresp.path = "enforced" /\ aresp.verified
     /\ aresp.verdict = "success") =>
        LET ip == aresp.ip
            n == Gate(genv, soft[ip], ip, {}, FALSE, "none", TRUE, TRUE, now)
        IN /\ soft[ip] = aresp.before
           /\ ~aresp.adjusted /\ ~aresp.queued
           /\ soft[ip].resetAtMs > now
           /\ soft[ip].count >= SoftThreshold(genv)
           /\ n.path = "enforced" /\ ~n.pass /\ n.status = 403

\* an enforced request was verified, passed the secret check and got its
\* listing; the counter still stands at the threshold
C25_Witness ==
    /\ aresp.op = "album" /\ aresp.path = "enforced" /\ aresp.verified
    /\ aresp.verdict = "success"
    /\ aresp.status = 200
    /\ aresp.before.count = SoftT
    /\ soft[aresp.ip].count = SoftT

----------------------------------------------------------------------------
(* Properties of the order of a listing request's steps *)

\* the cache actor's state and the record of its fetches
MetadataState == <<amem, astored, aghost>>

\* C26, the steps: up to the answer of the rate limit nothing of the gate
\* and nothing of the album's metadata is touched; the gate's step leaves
\* the rate counter alone, and the metadata too when it answers 403; the
\* load leaves the rate counter and the soft counter alone
C26_Steps ==
    /\ wk.pc \in {"idle", "rateLimit"} =>
          UNCHANGED <<soft, jar, bg, MetadataState>>
    /\ wk.pc = "route" =>
          /\ UNCHANGED <<mem, stored>>
          /\ (aresp'.op = "album" /\ aresp'.path # "none"
              /\ ~aresp'.secretChecked) => UNCHANGED MetadataState
    /\ wk.pc = "load" => UNCHANGED <<mem, stored, soft, bg>>

\* C26, the answers: a 429 comes from the rate limit's own answer; a request
\* the gate refuses has had no secret check, and one that fails the secret
\* check, or has none, carries no signed URL
C26_Answers ==
    /\ (aresp.op = "worker" /\ aresp.status = 429) => aresp.rl = "answer"
    /\ (aresp.op = "album" /\ aresp.path # "none") =>
          /\ (aresp.path = "enforced"
              /\ (~aresp.hasToken \/ aresp.verdict # "success")) =>
                 (aresp.status = 403 /\ ~aresp.secretChecked)
          /\ ~aresp.secretChecked =>
                 (aresp.status = 403 /\ aresp.matched = {} /\ ~aresp.viaDO)
          /\ aresp.matched = {} => (aresp.files = <<>> /\ aresp.setCookie = {})
          /\ aresp.status = 200 <=> (aresp.secretChecked /\ aresp.matched # {}
                                     /\ bucket[aresp.album].info.hasFiles)

(* C26: a listing request runs the global rate limit, then the soft gate,  *)
(* then the secret check, then resolves and signs the files, and a step    *)
(* that fails ends the request: a 429 comes with no peek or adjust of the  *)
(* soft counter, no verification and no read of the album's metadata; a    *)
(* 403 of the gate comes with no read of the metadata; a failed secret     *)
(* check comes with no signature.                                          *)
C26_StepOrder == []C26_Answers /\ [][C26_Steps]_vars

\* a 429 for a client whose earlier request passed the gate and was counted
C26_Witness ==
    /\ aresp.op = "worker" /\ aresp.status = 429
    /\ wk.pc = "idle"
    /\ soft[aresp.ip].count >= 1
    /\ \E a \in Albums : astored[a] # {}

----------------------------------------------------------------------------
(* Properties of the counter across restarts *)

\* the counter as durable storage holds it
Durable == IF stored = {} THEN ZeroCounter ELSE TheOne(stored)

\* C27, the states: a memo never differs from what durable storage holds
\* (or, before the first write, from the zero counter), so an eviction
\* changes nothing an action can see; peek() and check() answer from the
\* durable value found, restart or not
C27_Durable ==
    /\ mem # {} => mem = {Durable}
    /\ cresp.op = "peek" =>
          LET b == Before(cresp)
              elapsed == b.resetAtMs > 0 /\ cresp.at >= b.resetAtMs
          IN /\ cresp.count = IF elapsed THEN 0 ELSE b.count
             /\ cresp.resetAtMs = IF elapsed THEN 0 ELSE b.resetAtMs
    /\ (cresp.op = "check" /\ cresp.status = 200) =>
          LET b == Before(cresp)
          IN cresp.count = IF b.resetAtMs = 0 \/ cresp.at >= b.resetAtMs
                           THEN 1 ELSE b.count + 1

\* a step in which check(), adjust() or reset() completed
Mutation ==
    /\ cresp' # cresp
    /\ cresp'.op \in {"check", "adjust", "reset"}
    /\ cresp'.status = 200

\* the stored count was positive and is 0 after the step
BackToZero == Durable.count > 0 /\ Durable'.count = 0

\* the window of the stored value has ended
Expired == Durable.resetAtMs # 0 /\ now >= Durable.resetAtMs

\* C27, the steps: a completed mutation stores the value it answers, in
\* memo and durable storage alike; no other step, an eviction included,
\* changes the durable value
C27_Steps ==
    /\ Mutation =>
          /\ stored' = {[count |-> cresp'.count, resetAtMs |-> cresp'.resetAtMs]}
          /\ mem' = stored'
    /\ ~Mutation => stored' = stored

(* C27 as stated: the counter survives restarts, a key never accessed      *)
(* counts 0 with no window, and only reset() or the end of the window      *)
(* returns the count to 0.                                                 *)
C27_Original ==
    /\ []C27_Durable
    /\ [][/\ C27_Steps
          /\ BackToZero => (cresp'.op = "reset" \/ Expired)]_vars

(* C27: the counter survives restarts: the durable value is the answer of  *)
(* the last completed check(), adjust() or reset(), an eviction of the     *)
(* actor leaves it alone, and the next action, peek() included, works from *)
(* it; a key never accessed counts 0 with no window. The count returns to  *)
(* 0 only by reset(), by the end of the window, or by an adjust() with a   *)
(* negative delta.                                                         *)
C27_SurvivesRestart ==
    /\ []C27_Durable
    /\ [][/\ C27_Steps
          /\ BackToZero => (\/ cresp'.op = "reset"
                            \/ Expired
                            \/ (cresp'.op = "adjust" /\ cresp'.delta < 0))]_vars

\* after an eviction, a check() in the running window answered the third
\* request of the window
C27_Witness ==
    /\ cresp.op = "check" /\ cresp.status = 200
    /\ cresp.cold
    /\ Before(cresp).count = 2
    /\ cresp.at < Before(cresp).resetAtMs
    /\ cresp.count = 3
    /\ stored = {[count |-> 3, resetAtMs |-> Before(cresp).resetAtMs]}

----------------------------------------------------------------------------
(* Properties of the cache across restarts *)

(* C28: the cache of an album is one slot, held in the memo and in durable *)
(* storage: a memo never differs from the durable entry. A get() that      *)
(* finds a durable entry younger than its TTL answers cached = true with   *)
(* that entry and does not read the bucket, after an eviction of the actor *)
(* as well; a get() that finds no durable entry reads the bucket; and from *)
(* an invalidate() until the next fetch both memo and durable storage are  *)
(* empty, evictions or not. After a get() the slot holds the entry         *)
(* answered.                                                               *)
C28_DurableSlot ==
    /\ \A a \in Albums :
          /\ amem[a] # {} => amem[a] = astored[a]
          /\ Cardinality(astored[a]) <= 1
          /\ aghost[a] = NoFetch => (amem[a] = {} /\ astored[a] = {})
    /\ aresp.op = "get" =>
          LET d == aresp.durable
              age == aresp.at - TheOne(d).fetchedAtMs
              ttl == IF TheOne(d).status = 500 THEN aresp.parseErrorTtlMs
                     ELSE aresp.ttlMs
          IN /\ (d # {} /\ age >= 0 /\ age < ttl) =>
                    (aresp.cached /\ ~aresp.read /\ aresp.out = TheOne(d))
             /\ d = {} => (~aresp.cached /\ aresp.read)
             /\ astored[aresp.album] = {aresp.out}

\* after an eviction, a get() one tick after the fetch was answered from
\* the durable entry
C28_Witness ==
    /\ aresp.op = "get" /\ aresp.cold
    /\ aresp.durable # {}
    /\ aresp.at - TheOne(aresp.durable).fetchedAtMs = TickMs
    /\ aresp.cached /\ ~aresp.read
    /\ aresp.out.ok

----------------------------------------------------------------------------
(* Properties of token verification *)

\* the presented token carries the verification key's signature of its
\* payload part
SignedUnderKey ==
    /\ Len(tok.presented) = 2
    /\ tok.presented[2] = HmacB64(tok.vkey, tok.presented[1])

(* C29: a token is accepted only if it has exactly two parts, both         *)
(* non-empty, the second being the HMAC of the first under the             *)
(* verification key, and the first decoding to a JSON object with v = 1    *)
(* and numbers for iat and exp: every other input is refused, a validly    *)
(* signed one too.                                                         *)
C29_VerifyRejects ==
    (tok.st = "verified" /\ tok.ok) =>
        /\ SignedUnderKey
        /\ tok.presented[1] # EmptyPart /\ tok.presented[2] # EmptyPart
        /\ "obj" \in DOMAIN tok.presented[1]
        /\ LET p == tok.presented[1].obj
           IN /\ {"v", "iat", "exp"} \subseteq DOMAIN p
              /\ p.v = Num(1)
              /\ "num" \in DOMAIN p.iat /\ "num" \in DOMAIN p.exp

\* a token of version 2, signed with the key it is verified under and
\* long before its expiry, was refused
C29_Witness ==
    /\ tok.st = "verified" /\ ~tok.ok
    /\ SignedUnderKey
    /\ "obj" \in DOMAIN tok.presented[1]
    /\ tok.presented[1].obj.v = Num(2)
    /\ tok.presented[1].obj.exp = Num(ExpOf(tok.issued))
    /\ tok.at < ExpOf(tok.issued)
    /\ tok.kind = "human" => tok.vip = tok.ip

----------------------------------------------------------------------------
(* C30: a get() of AlbumIndexDO that was answered by refresh() returns one  *)
(* entry for each object under albums/<id>/photos/ other than the object   *)
(* whose key is the prefix itself, and no other entry; an entry has         *)
(* hasPreview exactly when an object of the same name lies under            *)
(* albums/<id>/preview/; the entries ascend by name in the order of         *)
(* localeCompare; a preview whose name no photo has gives no entry.         *)

Refreshed == idx.resp.op = "get" /\ ~idx.resp.cached

C30_RefreshIndex ==
    Refreshed =>
        LET f == idx.resp.files
            P == idx.resp.photos \ {""}
            V == idx.resp.preview \ {""}
        IN /\ Len(f) = Cardinality(P)
           /\ {f[i].name : i \in 1..Len(f)} = P
           /\ \A i \in 1..Len(f) : f[i].hasPreview <=> f[i].name \in V
           /\ \A i, j \in 1..Len(f) :
                 i < j => localeCompare(f[i].name, f[j].name) < 0
           /\ \A n \in V \ P : \A i \in 1..Len(f) : f[i].name # n

\* two photos that the listing gives in the other order, one of them with a
\* preview, a preview without a photo, and both prefix objects
C30_Witness ==
    /\ Refreshed
    /\ idx.resp.photos = {"", "B.jpg", "a.jpg"}
    /\ idx.resp.preview = {"", "a.jpg", "b.jpg"}
    /\ Len(idx.resp.files) = 2
    /\ idx.resp.files[1].name = "a.jpg"

----------------------------------------------------------------------------
(* C31: every access decision is taken on the canonical secret set of the  *)
(* settings the handler loaded, from AlbumInfoDO or straight from the      *)
(* bucket: the non-empty legacy secret together with the non-empty keys of *)
(* secrets. A listing request is matched exactly when its secret is not    *)
(* empty and is in that set, an image request is accepted exactly when     *)
(* its signature is the digest under a member of that set; so settings     *)
(* with the same canonical set decide every request alike.                 *)

Canonical(info) == ({info.secret} \cup info.secrets) \ {""}

Decided ==
    \/ aresp.op = "image" /\ aresp.loaded
    \/ aresp.op = "album" /\ aresp.path # "none" /\ aresp.secretChecked

C31_CanonicalSecrets ==
    (Decided /\ aresp.used.ok) =>
        LET S == Canonical(aresp.used.info)
        IN /\ aresp.used.secrets = S
           /\ aresp.op = "image" =>
                 (ImageAccepted(aresp) <=>
                     \E k \in S : aresp.sig = ImageSig(aresp.album, aresp.name, k))
           /\ aresp.op = "album" =>
                 (aresp.matched # {} <=> (aresp.secret # "" /\ aresp.secret \in S))

\* a listing secret matched through AlbumInfoDO against settings that hold
\* it as the legacy secret only
C31_Witness ==
    /\ aresp.op = "album" /\ aresp.path # "none" /\ aresp.secretChecked
    /\ aresp.viaDO /\ aresp.used.ok
    /\ aresp.used.info.secret = "k1" /\ aresp.used.info.secrets = {}
    /\ aresp.matched = {"k1"}

----------------------------------------------------------------------------
(* C32: a request under /api/admin/ other than the session exchange is     *)
(* executed only when ADMIN_TOKEN is set and the Bearer credential is a    *)
(* token signed under it whose expiry, seven days after its issue, lies    *)
(* ahead; it is answered 401 otherwise. The session exchange issues a      *)
(* token only when the secret sent equals ADMIN_TOKEN and, with bot        *)
(* verification configured, only after that succeeded; the token expires   *)
(* seven days after its issue. With no ADMIN_TOKEN set a request is        *)
(* answered 401, but for a session exchange whose body is not JSON, which  *)
(* is answered 400.                                                        *)

AdminAnswered == aresp.op = "adminapi"

SessionToken(t, key, at) ==
    /\ Len(t) = 2 /\ "obj" \in DOMAIN t[1]
    /\ t[2] = HmacB64(key, t[1])
    /\ IsNumField(t[1].obj, "iat") /\ IsNumField(t[1].obj, "exp")
    /\ t[1].obj.exp.num = t[1].obj.iat.num + AdminSessionTtlMs
    /\ at < t[1].obj.exp.num

C32_Guarded ==
    AdminAnswered =>
        /\ (~aresp.session /\ aresp.executed) =>
              /\ aresp.adminToken # ""
              /\ aresp.auth.scheme = "Bearer"
              /\ SessionToken(aresp.auth.token, aresp.adminToken, aresp.at)
        /\ (~aresp.session /\ ~aresp.executed) => aresp.status = 401
        /\ aresp.session =>
              /\ ~aresp.executed
              /\ aresp.issued # {} <=> aresp.status = 200
              /\ aresp.issued # {} =>
                    /\ aresp.adminToken # "" /\ aresp.provided = aresp.adminToken
                    /\ aresp.tsKey # "" =>
                          aresp.hasTsToken /\ aresp.verdict = "success"
                    /\ SessionToken(TheOne(aresp.issued), aresp.adminToken, aresp.at)
                    /\ TheOne(aresp.issued)[1].obj.iat.num = aresp.at

----------------------------------------------------------------------------
(* C33: a call to one actor leaves every other actor as it was. The        *)
(* counter of the album_api bucket of a client changes only in a rate      *)
(* limit check of that client; the soft counter of a client, what peek     *)
(* reports of it and whether the client is enforced change only in a soft  *)
(* adjust of that client; the cache entry of an album changes only in a    *)
(* get or an invalidate of that album.                                     *)

RateOf(n, ip) == n.limiter[RateKey("album_api", ip)]
SoftOf(n, ip) == n.limiter[SoftKey(ip)]
EnforcedOf(n, ip) == Enforced(PeekResp(SoftOf(n, ip), now).count, SoftT)

C33_Step ==
    /\ \A ip \in KeyIps :
          /\ RateOf(ns', ip) # RateOf(ns, ip) =>
                ns'.last.op = "check" /\ ns'.last.ip = ip
          /\ (SoftOf(ns', ip) # SoftOf(ns, ip)
              \/ EnforcedOf(ns', ip) # EnforcedOf(ns, ip)) =>
                ns'.last.op = "soft" /\ ns'.last.ip = ip
    /\ \A a \in KeyAlbums :
          ns'.info[InfoKey(a)] # ns.info[InfoKey(a)] =>
              ns'.last.op \in {"get", "invalidate"} /\ ns'.last.album = a

C33_Isolation == [][C33_Step]_vars

\* one client at the limit of checks and enforced, the other charged once
\* and never checked; one album cached, the other not
C33_Witness ==
    /\ RateOf(ns, "::1").count > SoftT /\ RateOf(ns, "10.0.0.1").count = 0
    /\ EnforcedOf(ns, "::1") /\ SoftOf(ns, "10.0.0.1").count = 1
    /\ ns.info[InfoKey("a1")].stored # {} /\ ns.info[InfoKey("a2")].stored = {}
    /\ ns.last.op = "check"

----------------------------------------------------------------------------
(* C34: of the concurrent requests of one client that carry no token and   *)
(* no cookie, within one soft window, at most T (the threshold) are let by *)
(* the soft gate, and the client's soft counter never exceeds T, whatever  *)
(* the order of their peeks and adjusts.                                   *)

LetBy == {c \in Calls : inflight.call[c].pc # "new" /\ inflight.call[c].allowed}

C34_SoftBound ==
    /\ Cardinality(LetBy) <= SoftThreshold(genv)
    /\ \A ip \in ClientIps : soft[ip].count <= SoftThreshold(genv)

----------------------------------------------------------------------------
(* C35: with every writer of info.json having its invalidate() answered,   *)
(* a get() of AlbumInfoDO never returns as a cached entry a payload other  *)
(* than the one in the bucket: not the settings from before an update,     *)
(* whatever a get() in flight had read before the update.                  *)

C35_NoStaleAfterInvalidate ==
    (aresp.op = "get" /\ aresp.cached) =>
        aresp.out = InfoRefresh(aresp.album, bucket[aresp.album],
                                aresp.out.fetchedAtMs)

----------------------------------------------------------------------------
(* C36: on the counter actor and on the cache actor a memo that is set     *)
(* equals the durably stored value (no stored counter value counting as    *)
(* count 0 without a window), also after an action whose durable write     *)
(* failed.                                                                 *)

C36_MemoMirrorsStorage ==
    /\ mem # {} => TheOne(mem) = IF stored = {} THEN ZeroCounter ELSE TheOne(stored)
    /\ \A a \in Albums : amem[a] # {} => amem[a] = astored[a]

----------------------------------------------------------------------------
(* C37: the soft window is fixed by the first strike. A strike on a counter *)
(* whose window runs adds one to the count and keeps resetAtMs; a strike    *)
(* with no window running (none yet, or the last one elapsed) leaves count  *)
(* 1 and a window that ends windowMs later. Once the window has elapsed the *)
(* peek reports count 0 and the client is not enforced, without any further *)
(* request of it.                                                           *)

C37_Step ==
    \A ip \in ClientIps :
        soft'[ip] # soft[ip] =>
            IF soft[ip].resetAtMs # 0 /\ now < soft[ip].resetAtMs
            THEN soft'[ip] = [count |-> soft[ip].count + 1,
                              resetAtMs |-> soft[ip].resetAtMs]
            ELSE soft'[ip] = [count |-> 1,
                              resetAtMs |-> now + SoftWindowMs(genv)]

C37_Expiry ==
    /\ \A ip \in ClientIps :
          (soft[ip].resetAtMs # 0 /\ now >= soft[ip].resetAtMs) =>
              /\ PeekResp(soft[ip], now).count = 0
              /\ ~Enforced(PeekTurnstileSoftCount(genv, soft[ip], now, TRUE),
                           SoftThreshold(genv))
    /\ (Peeked /\ aresp.peekUp /\ aresp.before.resetAtMs # 0
        /\ aresp.at >= aresp.before.resetAtMs) =>
              aresp.count = 0 /\ aresp.path = "soft"

C37_FixedWindow == []C37_Expiry /\ [][C37_Step]_vars

\* a client that was enforced strikes again after its window has elapsed
C37_Witness ==
    /\ Peeked /\ aresp.adjusted /\ aresp.adjustUp
    /\ aresp.before.count >= SoftThreshold(genv)
    /\ aresp.at >= aresp.before.resetAtMs
    /\ soft[aresp.ip] = [count |-> 1, resetAtMs |-> aresp.at + SoftWindowMs(genv)]

----------------------------------------------------------------------------
(* C38: a listing response carries a bypass cookie only when it is a 200    *)
(* and the request either showed a bypass token that verifies or was on the *)
(* enforced path with a verification that succeeded. With the bypass cookie *)
(* switched off, or without TURNSTILE_SECRET_KEY, no cookie is accepted (no *)
(* request goes the bypass path) and none is issued; a background           *)
(* verification hands out none.                                             *)

C38_CookieOff ==
    /\ aresp.op = "album" /\ aresp.path = "enforced"
    /\ ~CookieEnabled(genv)
    /\ aresp.cookie # {}
    /\ VerifyHumanBypassToken(TheOne(aresp.cookie), genv.TURNSTILE_SECRET_KEY,
                              aresp.ip, aresp.at)
    /\ aresp.hasToken /\ aresp.verdict = "success"
    /\ aresp.status = 200 /\ aresp.setCookie = {}

----------------------------------------------------------------------------
(* Properties of the image handler's order of checks *)

\* the signature of image response r is the digest under a secret of the
\* settings the handler loaded
Signed(r) ==
    /\ r.loaded /\ r.used.ok
    /\ \E k \in r.used.secrets : ImageSig(r.album, r.name, k) = r.sig

\* the request of r is one the handler refuses: invalid album id or file
\* name, no signature, album unknown or unparsable, signature of no secret
Refused(r) ==
    \/ ~IsValidAlbumId(r.album)
    \/ ~IsValidPhotoFileName(r.name)
    \/ r.sig = ""
    \/ r.loaded /\ ~Signed(r)

----------------------------------------------------------------------------
(* C40: settings whose secrets normalize to the empty set grant no access.  *)
(* A listing request whose secret check ran on such settings is answered    *)
(* 403 whatever secret it sent; an image request for a photo or a preview   *)
(* of such an album is answered 403 whatever its signature, and no blob is  *)
(* read; and a listing request that sends the empty secret is never         *)
(* answered 200, whatever the album's settings.                             *)

\* the settings response r went by have no secret
NoSecret(r) ==
    IF r.op = "album" \/ r.loaded
    THEN r.used.ok /\ Canonical(r.used.info) = {}
    ELSE /\ r.album \in Albums
         /\ bucket[r.album] \notin {NoObject, BadObject}
         /\ Canonical(bucket[r.album].info) = {}

C40_NoSecretNoAccess ==
    /\ (aresp.op = "album" /\ aresp.path # "none" /\ aresp.secretChecked) =>
          /\ NoSecret(aresp) => aresp.status = 403 /\ aresp.matched = {}
          /\ aresp.secret = "" => aresp.status # 200 /\ aresp.matched = {}
    /\ (aresp.op = "image" /\ aresp.kind \in {"photos", "preview"}
        /\ NoSecret(aresp)) =>
          aresp.status = 403 /\ ~aresp.blobRead

\* a listing request with a secret for an album whose settings have none
C40_Witness ==
    /\ aresp.op = "album" /\ aresp.path # "none" /\ aresp.secretChecked
    /\ NoSecret(aresp)
    /\ aresp.secret = "k1"
    /\ aresp.status = 403

\* an image request with a signature for such an album, and a listing
\* request with the empty secret for an album that lists "" as a secret
C40_Image ==
    /\ aresp.op = "image" /\ aresp.loaded /\ NoSecret(aresp)
    /\ aresp.sig # "" /\ aresp.status = 403
C40_EmptySecret ==
    /\ aresp.op = "album" /\ aresp.path # "none" /\ aresp.secretChecked
    /\ aresp.used.ok /\ "" \in aresp.used.info.secrets
    /\ aresp.secret = "" /\ aresp.status = 403

====
